---- MODULE Spec2Model ----
(***************************************************************************)
(* State-machine model of the WhatsApp webhook automation:                 *)
(*   - ingestion pipeline of main.py (ASGI intercept, background enqueue   *)
(*     tasks, bounded queue, queue workers, dedup cache, processing tasks  *)
(*     under the concurrency semaphore)            -> specification Spec   *)
(*   - debounce coordinator of nodes/message_handler.py on top of the      *)
(*     Redis operations of nodes/redis_client.py   -> SpecDebounce         *)
(*   - rate limiter of nodes/rate_limiter.py        -> SpecRate            *)
(* Every specification moves its own variables and leaves the others at    *)
(* their initial value.                                                    *)
(***************************************************************************)
EXTENDS Integers, Sequences, FiniteSets, TLC

VARIABLES
    \* ---- main.py ----
    queueCreated,    \* _queue is not None (set by lifespan startup)
    shuttingDown,    \* _shutting_down
    workersAlive,    \* worker loops of _worker_tasks still running
    queue,           \* contents of _queue, head first
    enqReady,        \* _enqueue_webhook tasks created and not yet run
    enqBlocked,      \* _enqueue_webhook tasks suspended inside _queue.put
    processed,       \* _processed_messages : id -> monotonic time (NoTime = absent)
    now,             \* time.monotonic()
    tasks,           \* _process_message tasks: task record -> how many
    sem,             \* _concurrency_sem._value (NoSem before startup)
    totalReceived,   \* _total_received
    totalProcessed,  \* _total_processed
    totalErrors,     \* _total_errors
    requests,        \* POST /webhook requests handled so far
    lastResponse,    \* history: the last response sent, with the state it was sent in
    dispatchLog,     \* history: id -> times at which a task was created for it
    delivered,       \* history: id -> deliveries that reached the dedup check (counted up to 2)
    appSecret,       \* config.WHATSAPP_APP_SECRET is set
    shutdown,        \* lifespan after the yield: "no", "grace", "cancelling", "complete"
    forced,          \* history: tasks ended by the forced cancellation (counted up to 2)
    health,          \* history: the last GET /health report
    \* ---- nodes/message_handler.py and nodes/redis_client.py, one sender ----
    lock,            \* Redis user:{phone}:debounce_lock (NoLock = key absent)
    pending,         \* Redis user:{phone}:pending_messages, oldest first
    hpc,             \* handler task -> where it stands in _handle_message_with_debounce
    started,         \* handler tasks started so far (tasks start in the order 1, 2, ...)
    readLock,        \* history: handler task -> the lock value it read after its sleep
    batches,         \* history: the lists returned by get_and_clear_pending_messages
    prevDrained,     \* history: handler task -> the previous task had drained when it started
    inOrder,         \* history: the tokens were written in the order the tasks started
    overwritten,     \* history: handler task -> a later token was written while it slept
    nextWrote,       \* history: handler task -> the next task's token was written before it woke
    \* ---- nodes/rate_limiter.py, one sender (one phone hash) ----
    limit,           \* config.DAILY_MESSAGE_LIMIT
    dbAvailable,     \* _get_firestore_db() returned a client (not None)
    today,           \* _today(), as a day number
    doc,             \* the sender's Firestore document in users-whatsapp
    mem,             \* the sender's entry of _memory_counts
    calls,           \* save_message_count / check_rate_limit runs: call -> its state
    callsStarted,    \* runs started so far (runs start in the order 1, 2, ...)
    sequential,      \* history: no run started while another was in flight
    storeFailed,     \* history: a Firestore operation raised
    \* ---- nodes/message_handler.py : handle_incoming_message, one sender ----
    registered,      \* Redis user:{phone}:registered exists
    terms,           \* Redis user:{phone}:terms_accepted ("none" = key absent)
    hLock,           \* Redis user:{phone}:debounce_lock (NoLock = key absent)
    hPending,        \* Redis user:{phone}:pending_messages
    chat,            \* Redis user:{phone}:chat_history exists
    hs,              \* handler task -> its kind of message, branch and position
    hStarted,        \* handler tasks started so far (in arrival order 1, 2, ...)
    sawNew,          \* history: the handlers that read "not registered"
    registerCalls,   \* history: register_user calls
    prompts,         \* history: welcome / terms prompts sent
    \* ---- main.py : _is_duplicate called on its own ----
    lastCheck,       \* history: the last _is_duplicate call (id, time, answer)
    \* ---- main.py : _queue_worker, one step per part of an iteration ----
    wk,              \* worker -> position in the loop, item held, cancel request
    served,          \* history: items taken from the queue and task_done calls
    \* ---- main.py : _process_message, one record per task ----
    pm,              \* task -> position, permit held, what it counted and sent
    \* ---- graph.py : one run of the compiled workflow ----
    wf,              \* node to run next, nodes run so far, the run's state
    \* ---- nodes/fact_checker.py : one call of _post_with_retry ----
    fc,              \* position, attempt, outcomes met, pauses taken, result
    \* ---- nodes/message_handler.py : the consent flow of one sender ----
    cs,              \* Redis keys of the sender, handler tasks, prompts sent
    \* ---- nodes/message_handler.py : _process_with_classification ----
    bp               \* the drained batch, position, new arrivals, outcomes

varsIngest ==
    << queueCreated, shuttingDown, workersAlive, queue, enqReady, enqBlocked,
       processed, now, tasks, sem, totalReceived, totalProcessed, totalErrors,
       requests, lastResponse, dispatchLog, delivered, appSecret, shutdown, forced,
       health >>

\* the shutdown sequence and the health report
varsLife == << shutdown, forced, health >>

varsDebounce ==
    << lock, pending, hpc, started, readLock, batches, prevDrained, inOrder,
       overwritten, nextWrote >>

varsRate ==
    << limit, dbAvailable, today, doc, mem, calls, callsStarted, sequential,
       storeFailed >>

varsHandler ==
    << registered, terms, hLock, hPending, chat, hs, hStarted, sawNew, registerCalls,
       prompts >>

\* the variables of the parts that are examined on their own
varsWorker == << wk, served >>
varsMore == << lastCheck, varsWorker, pm, wf, fc, cs, bp >>

\* what the steps of one part leave alone
varsNotIngest == << varsDebounce, varsRate, varsHandler, varsMore >>
varsNotDebounce == << varsIngest, varsRate, varsHandler, varsMore >>
varsNotRate == << varsIngest, varsDebounce, varsHandler, varsMore >>
varsNotHandler == << varsIngest, varsDebounce, varsRate, varsMore >>

(***************************************************************************)
(* Bounds of the model                                                     *)
(***************************************************************************)
\* messages of the sender handled per behaviour
MaxMsgs == 3
\* runs of the rate limiter per behaviour
MaxCalls == 3
\* handle_incoming_message tasks of the sender per behaviour
MaxHandlers == 3
\* runs of the rate limiter in flight at the same time
MaxInFlight == 2
\* largest configured daily limit
MaxLimit == 2
\* last day reached
MaxDay == 1
\* POST /webhook requests per behaviour
MaxRequests == 3
\* steps of the monotonic clock per behaviour
MaxTicks == 2
\* seconds the clock advances in one step
TickSeconds == 200
\* model stand-in for _QUEUE_MAX (500 in main.py)
QueueMax == 2
\* model stand-in for _MAX_CONCURRENT (10 in main.py)
MaxConcurrent == 2
\* model stand-in for the dedup size ceiling (2000 in main.py)
DedupCeiling == 1
\* processing tasks followed one by one per behaviour
MaxTasks == 2
\* workflow runs per behaviour
MaxRuns == 1
\* handler tasks of the consent flow per behaviour
MaxConsentTasks == 2
\* batches handed to _process_with_classification per behaviour
MaxBatches == 2

(***************************************************************************)
(* Program constants                                                       *)
(***************************************************************************)
_DEDUP_TTL == 300
_MAX_RETRIES == 3
_RETRY_DELAYS == << 2, 4, 8 >>
StatusOk == 200

NoTime == 0 - 1
NoSem == 0 - 1
NoHealth == [queueSize |-> 0 - 2]
OkBody == "{\"status\":\"ok\"}"
NoResponse ==
    [status |-> 0, body |-> "", enq |-> "none", created |-> FALSE,
     shutdown |-> FALSE, full |-> FALSE]
Min(a, b) == IF a < b THEN a ELSE b

Workers == {0, 1}

Times == {k * TickSeconds : k \in 0..MaxTicks}

(***************************************************************************)
(* Payloads.  A payload is what the intercept enqueues: the raw body       *)
(* (here already as the structure json.loads yields, or invalid) and the   *)
(* signature header.  entry/changes are flattened to a list of changes;    *)
(* an entry that is no object (entry.get raises outside the per-change     *)
(* try) stands in the list as BadEntry, a change that is no object as      *)
(* BadChange, a message that is no object as a Msg of type "malformed".    *)
(***************************************************************************)
MsgIds == {"", "m1", "m2", "m3"}
RealIds == MsgIds \ {""}
IgnoredTypes == {"reaction", "system", "ephemeral", "unsupported", "request_welcome"}

Msg(id, type, from) == [id |-> id, type |-> type, from |-> from]
Change(statuses, msgs) == [kind |-> "change", statuses |-> statuses, messages |-> msgs]
BadChange == [kind |-> "bad_change", statuses |-> FALSE, messages |-> << >>]
BadEntry == [kind |-> "bad_entry", statuses |-> FALSE, messages |-> << >>]
Payload(sig, valid, changes) == [sig |-> sig, valid |-> valid, changes |-> changes]

Payloads ==
    { Payload("", TRUE, << Change(FALSE, << Msg("m1", "text", "u1") >>) >>),
      Payload("nonascii", TRUE, << Change(FALSE, << Msg("m2", "image", "u1"),
                                                    Msg("m2", "image", "u1") >>) >>),
      Payload("good", TRUE, << Change(FALSE, << Msg("", "text", "") >>),
                               Change(FALSE, << Msg("m1", "text", "u1") >>) >>),
      Payload("bad", TRUE, << Change(FALSE, << Msg("m1", "text", "u1") >>) >>),
      Payload("", FALSE, << >>),
      Payload("", TRUE, << BadChange,
                           Change(FALSE, << Msg("", "malformed", ""),
                                            Msg("m2", "text", "u1") >>),
                           BadEntry,
                           Change(FALSE, << Msg("m1", "text", "u1") >>) >>),
      Payload("", TRUE, << Change(TRUE, << >>),
                           Change(FALSE, << Msg("m2", "reaction", "u1") >>) >>) }

(***************************************************************************)
(* Processing tasks.  Tasks are anonymous: a task is described by whether  *)
(* its message has an id and a sender and by where it stands in            *)
(* _process_message.                                                       *)
(*   wait    blocked in "async with _concurrency_sem"                      *)
(*   typing  holds a permit, awaiting send_typing_indicator                *)
(*   work    holds a permit, awaiting wait_for(_workflow.ainvoke)          *)
(*   notice  holds a permit, awaiting send_text of the timeout/error text  *)
(***************************************************************************)
TaskPcs == {"wait", "typing", "work", "notice"}
TaskRecs == [hasId : BOOLEAN, hasSender : BOOLEAN, pc : TaskPcs]
Task(hasId, hasSender, pc) == [hasId |-> hasId, hasSender |-> hasSender, pc |-> pc]

BagAdd(b, e) == [b EXCEPT ![e] = @ + 1]
BagDel(b, e) == [b EXCEPT ![e] = @ - 1]
BagSize(b, S) ==
    LET RECURSIVE Sum(_)
        Sum(R) == IF R = {} THEN 0
                  ELSE LET e == CHOOSE x \in R : TRUE IN b[e] + Sum(R \ {e})
    IN Sum(S)

InCritical == BagSize(tasks, {t \in TaskRecs : t.pc # "wait"})
Waiting == BagSize(tasks, {t \in TaskRecs : t.pc = "wait"})


(***************************************************************************)
(* main.py : _is_duplicate                                                 *)
(* Returns the answer and the cache after the call.                        *)
(***************************************************************************)
CacheIds(cache) == {i \in DOMAIN cache : cache[i] # NoTime}

\* a cleanup that empties the map once it is above the ceiling
LazyCleanup_All(cache, t) ==
    IF Cardinality(CacheIds(cache)) > DedupCeiling
    THEN [i \in DOMAIN cache |-> NoTime]
    ELSE cache

LazyCleanup(cache, t) ==
    IF Cardinality(CacheIds(cache)) > DedupCeiling
    THEN [i \in DOMAIN cache |->
            IF cache[i] # NoTime /\ t - cache[i] > _DEDUP_TTL THEN NoTime ELSE cache[i]]
    ELSE cache

\* a dedup check that looks the id up and forgets to record it
IsDuplicate_NoRecord(cache, id, t) ==
    IF id = "" THEN [dup |-> FALSE, cache |-> cache]
    ELSE LET cleaned == LazyCleanup(cache, t)
         IN [dup |-> cleaned[id] # NoTime, cache |-> cleaned]

\* a dedup check that takes a message without id for one already seen
IsDuplicate_EmptyIsDup(cache, id, t) ==
    LET cleaned == LazyCleanup(cache, t)
    IN IF id = "" THEN [dup |-> TRUE, cache |-> cleaned]
       ELSE IF cleaned[id] # NoTime
       THEN [dup |-> TRUE, cache |-> cleaned]
       ELSE [dup |-> FALSE, cache |-> [cleaned EXCEPT ![id] = t]]

IsDuplicate(cache, id, t) ==
    IF id = "" THEN [dup |-> FALSE, cache |-> cache]
    ELSE LET cleaned == LazyCleanup(cache, t)
         IN IF cleaned[id] # NoTime
            THEN [dup |-> TRUE, cache |-> cleaned]
            ELSE [dup |-> FALSE, cache |-> [cleaned EXCEPT ![id] = t]]

(***************************************************************************)
(* main.py : _queue_worker, the body executed for one dequeued item.       *)
(* There is no await between _queue.get() returning and task_done(), so    *)
(* the whole item is handled in one step.  The fold state S carries the    *)
(* dedup cache, the tasks created and the history of the run.              *)
(***************************************************************************)
\* The signature header of a payload is "" (no header), "good" (the HMAC-SHA256
\* of the raw bytes), "bad" (another hex digest) or "nonascii" (a header value
\* with a byte above 0x7f, which the intercept decodes as latin-1).
\* hmac.compare_digest raises TypeError on a str with non-ASCII characters,
\* and the "except Exception" around the validation lets the payload through.
HmacVerdict(secretSet, sig) ==
    IF secretSet /\ sig # ""
    THEN IF sig = "bad" THEN "discard" ELSE "pass"
    ELSE "pass"

\* a worker that skips no message type
Ignorable_Never(type) == FALSE

\* "if msg_type in ("reaction", "system", "ephemeral", "unsupported",
\* "request_welcome"): continue"
Ignorable(type) == type \in IgnoredTypes

HandleMessage(m, S, t) ==
    IF m.type = "malformed" THEN S
    ELSE IF Ignorable(m.type) THEN S
    ELSE LET r == IsDuplicate(S.cache, m.id, t)
             seen == IF m.id = "" THEN S.delivered
                     ELSE [S.delivered EXCEPT ![m.id] = Min(@ + 1, 2)]
         IN IF r.dup
            THEN [S EXCEPT !.cache = r.cache, !.delivered = seen]
            ELSE [cache |-> r.cache,
                  delivered |-> seen,
                  spawned |-> Append(S.spawned, Task(m.id # "", m.from # "", "wait")),
                  log |-> IF m.id = "" THEN S.log
                          ELSE [S.log EXCEPT ![m.id] = Append(@, t)],
                  raised |-> S.raised]

RECURSIVE HandleMessages(_, _, _)
HandleMessages(msgs, S, t) ==
    IF msgs = << >> THEN S
    ELSE HandleMessages(Tail(msgs), HandleMessage(Head(msgs), S, t), t)

RECURSIVE HandleChanges(_, _, _)
HandleChanges(changes, S, t) ==
    IF changes = << >> THEN S
    ELSE LET c == Head(changes)
             S1 == IF c.kind = "bad_change" \/ c.statuses \/ c.messages = << >> THEN S
                   ELSE HandleMessages(c.messages, S, t)
         IN IF c.kind = "bad_entry"
            THEN [S EXCEPT !.raised = TRUE]
            ELSE HandleChanges(Tail(changes), S1, t)

HandleItem(item, S, t) ==
    IF HmacVerdict(appSecret, item.sig) = "discard" THEN S
    ELSE IF ~item.valid THEN S
    ELSE HandleChanges(item.changes, S, t)

RECURSIVE AddTasks(_, _)
AddTasks(b, ts) ==
    IF ts = << >> THEN b ELSE AddTasks(BagAdd(b, Head(ts)), Tail(ts))

(***************************************************************************)
(* main.py : WebhookInterceptASGI._handle_webhook                          *)
(***************************************************************************)
\* an intercept that reports a payload it could not hand over
WebhookResponse_FailOnSkip(enq) ==
    IF enq = "spawned" THEN [status |-> StatusOk, body |-> OkBody]
    ELSE [status |-> 503, body |-> "{\"status\":\"busy\"}"]

WebhookResponse(enq) == [status |-> StatusOk, body |-> OkBody]

EnqueueOutcome(spawnFails) ==
    IF ~shuttingDown /\ queueCreated
    THEN IF spawnFails THEN "spawn_failed" ELSE "spawned"
    ELSE "skipped"

HandleWebhook(p, spawnFails) ==
    /\ requests < MaxRequests
    /\ LET enq == EnqueueOutcome(spawnFails)
           r == WebhookResponse(enq)
       IN /\ enqReady' = IF enq = "spawned" THEN Append(enqReady, p) ELSE enqReady
          /\ totalReceived' = IF enq = "spawned" THEN totalReceived + 1 ELSE totalReceived
          /\ lastResponse' =
                [status |-> r.status, body |-> r.body, enq |-> enq,
                 created |-> queueCreated, shutdown |-> shuttingDown,
                 full |-> Len(queue) >= QueueMax]
    /\ requests' = requests + 1
    /\ UNCHANGED << queueCreated, shuttingDown, workersAlive, queue, enqBlocked,
                    processed, now, tasks, sem, totalProcessed, totalErrors,
                    dispatchLog, delivered, appSecret,
                    varsLife, varsNotIngest >>

(***************************************************************************)
(* main.py : _enqueue_webhook.  "await _queue.put(item)" returns at once   *)
(* when the queue has room and otherwise suspends the task until a get     *)
(* frees a slot (asyncio.Queue.put never raises QueueFull).                *)
(***************************************************************************)
EnqueuePut ==
    /\ enqReady # << >>
    /\ Len(queue) < QueueMax
    /\ queue' = Append(queue, Head(enqReady))
    /\ enqReady' = Tail(enqReady)
    /\ UNCHANGED << queueCreated, shuttingDown, workersAlive, enqBlocked, processed,
                    now, tasks, sem, totalReceived, totalProcessed, totalErrors,
                    requests, lastResponse, dispatchLog, delivered, appSecret,
                    varsLife, varsNotIngest >>

EnqueueSuspend ==
    /\ enqReady # << >>
    /\ Len(queue) >= QueueMax
    /\ enqBlocked' = Append(enqBlocked, Head(enqReady))
    /\ enqReady' = Tail(enqReady)
    /\ UNCHANGED << queueCreated, shuttingDown, workersAlive, queue, processed,
                    now, tasks, sem, totalReceived, totalProcessed, totalErrors,
                    requests, lastResponse, dispatchLog, delivered, appSecret,
                    varsLife, varsNotIngest >>

EnqueueResume ==
    /\ enqBlocked # << >>
    /\ Len(queue) < QueueMax
    /\ queue' = Append(queue, Head(enqBlocked))
    /\ enqBlocked' = Tail(enqBlocked)
    /\ UNCHANGED << queueCreated, shuttingDown, workersAlive, enqReady, processed,
                    now, tasks, sem, totalReceived, totalProcessed, totalErrors,
                    requests, lastResponse, dispatchLog, delivered, appSecret,
                    varsLife, varsNotIngest >>

(***************************************************************************)
(* main.py : _queue_worker, one iteration of the loop                      *)
(***************************************************************************)
\* a loop that ends when an exception escapes the handling of an item
LoopContinues_DieOnError(raised) == ~raised

\* "except Exception: ... await asyncio.sleep(0.1)" and the next iteration
LoopContinues(raised) == TRUE

WorkerHandle(w) ==
    /\ w \in workersAlive
    /\ queue # << >>
    /\ LET S0 == [cache |-> processed, delivered |-> delivered,
                  spawned |-> << >>, log |-> dispatchLog, raised |-> FALSE]
           S == HandleItem(Head(queue), S0, now)
       IN /\ processed' = S.cache
          /\ workersAlive' = IF LoopContinues(S.raised) THEN workersAlive
                             ELSE workersAlive \ {w}
          /\ delivered' = S.delivered
          /\ dispatchLog' = S.log
          /\ tasks' = AddTasks(tasks, S.spawned)
    /\ queue' = Tail(queue)
    /\ UNCHANGED << queueCreated, shuttingDown, enqReady, enqBlocked,
                    now, sem, totalReceived, totalProcessed, totalErrors,
                    requests, lastResponse, appSecret,
                    varsLife, varsNotIngest >>

(***************************************************************************)
(* main.py : _process_message                                              *)
(***************************************************************************)
\* a semaphore that never blocks
CanAcquire_Always(value) == TRUE

CanAcquire(value) == value > 0

TaskAcquire(t) ==
    /\ t.pc = "wait"
    /\ tasks[t] > 0
    /\ shutdown # "cancelling"
    /\ CanAcquire(sem)
    /\ sem' = sem - 1
    /\ tasks' = BagAdd(BagDel(tasks, t),
                       [t EXCEPT !.pc = IF t.hasId THEN "typing" ELSE "work"])
    /\ UNCHANGED << queueCreated, shuttingDown, workersAlive, queue, enqReady,
                    enqBlocked, processed, now, totalReceived, totalProcessed,
                    totalErrors, requests, lastResponse, dispatchLog, delivered,
                    appSecret,
                    varsLife, varsNotIngest >>

TaskTypingDone(t) ==
    /\ t.pc = "typing"
    /\ tasks[t] > 0
    /\ shutdown # "cancelling"
    /\ tasks' = BagAdd(BagDel(tasks, t), [t EXCEPT !.pc = "work"])
    /\ UNCHANGED << queueCreated, shuttingDown, workersAlive, queue, enqReady,
                    enqBlocked, processed, now, sem, totalReceived, totalProcessed,
                    totalErrors, requests, lastResponse, dispatchLog, delivered,
                    appSecret,
                    varsLife, varsNotIngest >>

TaskWorkflowOk(t) ==
    /\ t.pc = "work"
    /\ tasks[t] > 0
    /\ totalProcessed' = totalProcessed + 1
    /\ tasks' = BagDel(tasks, t)
    /\ sem' = sem + 1
    /\ UNCHANGED << queueCreated, shuttingDown, workersAlive, queue, enqReady,
                    enqBlocked, processed, now, totalReceived, totalErrors,
                    requests, lastResponse, dispatchLog, delivered, appSecret,
                    varsLife, varsNotIngest >>

\* asyncio.TimeoutError or any other exception of the workflow
TaskWorkflowFails(t) ==
    /\ t.pc = "work"
    /\ tasks[t] > 0
    /\ shutdown # "cancelling"
    /\ totalErrors' = totalErrors + 1
    /\ IF t.hasSender
       THEN /\ tasks' = BagAdd(BagDel(tasks, t), [t EXCEPT !.pc = "notice"])
            /\ sem' = sem
       ELSE /\ tasks' = BagDel(tasks, t)
            /\ sem' = sem + 1
    /\ UNCHANGED << queueCreated, shuttingDown, workersAlive, queue, enqReady,
                    enqBlocked, processed, now, totalReceived, totalProcessed,
                    requests, lastResponse, dispatchLog, delivered, appSecret,
                    varsLife, varsNotIngest >>

TaskNoticeDone(t) ==
    /\ t.pc = "notice"
    /\ tasks[t] > 0
    /\ tasks' = BagDel(tasks, t)
    /\ sem' = sem + 1
    /\ UNCHANGED << queueCreated, shuttingDown, workersAlive, queue, enqReady,
                    enqBlocked, processed, now, totalReceived, totalProcessed,
                    totalErrors, requests, lastResponse, dispatchLog, delivered,
                    appSecret,
                    varsLife, varsNotIngest >>

(***************************************************************************)
(* main.py : lifespan                                                      *)
(***************************************************************************)
Startup ==
    /\ ~queueCreated
    /\ queueCreated' = TRUE
    /\ shuttingDown' = FALSE
    /\ sem' = MaxConcurrent
    /\ workersAlive' = Workers
    /\ UNCHANGED << queue, enqReady, enqBlocked, processed, now, tasks,
                    totalReceived, totalProcessed, totalErrors, requests,
                    lastResponse, dispatchLog, delivered, appSecret,
                    varsLife, varsNotIngest >>

\* "_shutting_down = True" and the cancellation of the worker loops, which
\* all wait in _queue.get() whenever another coroutine runs
\* a shutdown that leaves the worker loops running
CancelWorkers_None(alive) == alive

\* "for t in _worker_tasks: t.cancel()" : every loop ends at its await
CancelWorkers(alive) == {}

BeginShutdown ==
    /\ queueCreated
    /\ ~shuttingDown
    /\ shuttingDown' = TRUE
    /\ workersAlive' = CancelWorkers(workersAlive)
    /\ shutdown' = "grace"
    /\ UNCHANGED << queueCreated, queue, enqReady, enqBlocked, processed, now,
                    tasks, sem, totalReceived, totalProcessed, totalErrors,
                    requests, lastResponse, dispatchLog, delivered, appSecret,
                    forced, health, varsNotIngest >>

\* "asyncio.wait(_active_tasks, timeout=15)" times out with tasks pending:
\* every pending task is cancelled
GraceOver ==
    /\ shutdown = "grace"
    /\ BagSize(tasks, TaskRecs) > 0
    /\ shutdown' = "cancelling"
    /\ UNCHANGED << queueCreated, shuttingDown, workersAlive, queue, enqReady,
                    enqBlocked, processed, now, tasks, sem, totalReceived,
                    totalProcessed, totalErrors, requests, lastResponse,
                    dispatchLog, delivered, appSecret, forced, health, varsNotIngest >>

\* a permit that is not given back
Release_Leak(value) == value

\* leaving "async with _concurrency_sem"
Release(value) == value + 1

\* CancelledError raised at the await the task stands at: a task waiting for
\* a permit ends without one, any other task leaves the "async with" block
TaskCancelled(t) ==
    /\ shutdown = "cancelling"
    /\ tasks[t] > 0
    /\ tasks' = BagDel(tasks, t)
    /\ sem' = IF t.pc = "wait" THEN sem ELSE Release(sem)
    /\ forced' = Min(forced + 1, 2)
    /\ UNCHANGED << queueCreated, shuttingDown, workersAlive, queue, enqReady,
                    enqBlocked, processed, now, totalReceived, totalProcessed,
                    totalErrors, requests, lastResponse, dispatchLog, delivered,
                    appSecret, shutdown, health, varsNotIngest >>

\* no task is pending any more: "_active_tasks.clear()" and the end of lifespan
ShutdownComplete ==
    /\ shutdown \in {"grace", "cancelling"}
    /\ BagSize(tasks, TaskRecs) = 0
    /\ shutdown' = "complete"
    /\ UNCHANGED << queueCreated, shuttingDown, workersAlive, queue, enqReady,
                    enqBlocked, processed, now, tasks, sem, totalReceived,
                    totalProcessed, totalErrors, requests, lastResponse,
                    dispatchLog, delivered, appSecret, forced, health, varsNotIngest >>

(***************************************************************************)
(* main.py : health_check                                                  *)
(***************************************************************************)
\* a report that counts the payloads received instead of those queued
HealthReport_Received == [queueSize |-> totalReceived]

HealthReport == [queueSize |-> IF queueCreated THEN Len(queue) ELSE 0 - 1]

HealthCheck ==
    /\ health' = HealthReport
    /\ UNCHANGED << queueCreated, shuttingDown, workersAlive, queue, enqReady,
                    enqBlocked, processed, now, tasks, sem, totalReceived,
                    totalProcessed, totalErrors, requests, lastResponse,
                    dispatchLog, delivered, appSecret, shutdown, forced, varsNotIngest >>

Tick ==
    /\ now + TickSeconds <= MaxTicks * TickSeconds
    /\ now' = now + TickSeconds
    /\ UNCHANGED << queueCreated, shuttingDown, workersAlive, queue, enqReady,
                    enqBlocked, processed, tasks, sem, totalReceived,
                    totalProcessed, totalErrors, requests, lastResponse,
                    dispatchLog, delivered, appSecret,
                    varsLife, varsNotIngest >>

NoCheck == [id |-> "", at |-> NoTime, dup |-> FALSE, cleaned |-> FALSE]

\* no item held by a worker
NoItem == [sig |-> "none", valid |-> FALSE, changes |-> << >>]

\* a worker waiting in "await _queue.get()"
AtGet == [pc |-> "get", item |-> NoItem, pos |-> 0, raised |-> FALSE,
            cancel |-> FALSE, busyAtCancel |-> FALSE]

\* a processing task that was not created
NoTask == [pc |-> "idle", hasId |-> FALSE, hasSender |-> FALSE, holds |-> FALSE,
           ok |-> 0, err |-> 0, timedOut |-> FALSE, wfCancelled |-> FALSE,
           notice |-> "none"]

\* no workflow run yet
NoRun == [node |-> "idle", trace |-> << >>, in |-> << >>, state |-> << >>, runs |-> 0]

\* _post_with_retry not called
NoOutcome == [status |-> 0, exc |-> "none"]
NoPost == [pc |-> "idle", attempt |-> 0, met |-> << >>, slept |-> << >>,
           result |-> NoOutcome]

\* the consent flow with no handler task started
IdleConsentTask == [kind |-> "text", branch |-> "none", pc |-> "idle"]
NoConsentFlow ==
    [registered |-> FALSE, terms |-> "none", lock |-> 0, pending |-> << >>,
     hs |-> [h \in 1..MaxConsentTasks |-> IdleConsentTask], started |-> 0,
     wrote |-> << >>, nextWrote |-> [h \in 1..MaxConsentTasks |-> FALSE],
     sent |-> << >>, wasUnknown |-> TRUE]

\* the sender was sent the welcome prompt earlier and has not answered it
PromptedFlow ==
    [NoConsentFlow EXCEPT !.registered = TRUE, !.terms = "no", !.wasUnknown = FALSE]

\* no batch drained yet
NoBatch == [pc |-> "idle", kind |-> "text", cls |-> "none", arrived |-> FALSE,
            outcomes |-> << >>, batches |-> 0, past |-> << >>]

\* the parts that are examined on their own have not run
IdleParts ==
    /\ lastCheck = NoCheck
    /\ wk = [w \in Workers |-> AtGet]
    /\ served = [got |-> 0, done |-> 0]
    /\ pm = [k \in 1..MaxTasks |-> NoTask]
    /\ wf = NoRun
    /\ fc = NoPost
    /\ bp = NoBatch

IdleMore == IdleParts /\ cs = NoConsentFlow

InitIngestPart ==
    /\ queueCreated = FALSE
    /\ shuttingDown = FALSE
    /\ workersAlive = {}
    /\ queue = << >>
    /\ enqReady = << >>
    /\ enqBlocked = << >>
    /\ processed = [i \in RealIds |-> NoTime]
    /\ now = 0
    /\ tasks = [t \in TaskRecs |-> 0]
    /\ sem = NoSem
    /\ totalReceived = 0
    /\ totalProcessed = 0
    /\ totalErrors = 0
    /\ requests = 0
    /\ lastResponse = NoResponse
    /\ dispatchLog = [i \in RealIds |-> << >>]
    /\ delivered = [i \in RealIds |-> 0]
    /\ appSecret \in BOOLEAN
    /\ shutdown = "no"
    /\ forced = 0
    /\ health = NoHealth

InitIngest ==
    /\ IdleMore
    /\ InitIngestPart

\* the intake side: intercept, background enqueue, queue, workers, dedup
NextIngest ==
    \/ \E p \in Payloads, f \in BOOLEAN : HandleWebhook(p, f)
    \/ EnqueuePut
    \/ EnqueueSuspend
    \/ EnqueueResume
    \/ \E w \in Workers : WorkerHandle(w)
    \/ Startup
    \/ BeginShutdown
    \/ Tick

\* the processing tasks the workers create
NextTasks ==
    \/ \E t \in TaskRecs : TaskAcquire(t)
    \/ \E t \in TaskRecs : TaskTypingDone(t)
    \/ \E t \in TaskRecs : TaskWorkflowOk(t)
    \/ \E t \in TaskRecs : TaskWorkflowFails(t)
    \/ \E t \in TaskRecs : TaskNoticeDone(t)


(***************************************************************************)
(* nodes/message_handler.py : _handle_message_with_debounce, for one       *)
(* registered sender who accepted the terms; every Redis key carries the   *)
(* sender's phone, so senders do not interact.  Handler task t handles     *)
(* message t and mints token t (uuid4: tokens are unique).  Every await    *)
(* of the handler is a step of its own:                                    *)
(*   idle -> appended -> sleeping -> passed -> cleared -> processing -> done *)
(*                           |                    |                        *)
(*                           +-> stale            +-> empty                *)
(* The lock is written with a TTL of 5 s and the list with one of 300 s;   *)
(* the debounce sleep lasts 1 s, so neither key expires between a task's   *)
(* write and its re-read.                                                  *)
(***************************************************************************)
Handlers == 1..MaxMsgs
NoLock == 0
NotRead == 0 - 1

\* redis_client.add_pending_message : RPUSH
AddPendingMessage(list, m) == Append(list, m)

\* a drain that reads only the newest entry before deleting (LRANGE -1 -1, DEL)
GetAndClearPendingMessages_LastOnly(list) ==
    [batch |-> IF list = << >> THEN << >> ELSE << list[Len(list)] >>, rest |-> << >>]

\* a drain that reads the list and leaves it in place (LRANGE without DEL)
GetAndClearPendingMessages_NoClear(list) == [batch |-> list, rest |-> list]

\* redis_client.get_and_clear_pending_messages : MULTI, LRANGE 0 -1, DEL, EXEC
GetAndClearPendingMessages(list) == [batch |-> list, rest |-> << >>]

\* a comparison that never succeeds (the stored value read back as bytes)
TokenMatches_Never(current, token) == FALSE

\* a comparison that only asks whether a lock exists
TokenMatches_AnyLock(current, token) == current # NoLock

\* message_handler.py line 410 : "if current_lock != lock_id: return"
TokenMatches(current, token) == current = token

IdleDebounce ==
    /\ lock = NoLock
    /\ pending = << >>
    /\ hpc = [t \in Handlers |-> "idle"]
    /\ started = 0
    /\ readLock = [t \in Handlers |-> NotRead]
    /\ batches = << >>
    /\ prevDrained = [t \in Handlers |-> FALSE]
    /\ inOrder = TRUE
    /\ overwritten = [t \in Handlers |-> FALSE]
    /\ nextWrote = [t \in Handlers |-> FALSE]

NonEmptyBatches == SelectSeq(batches, LAMBDA b : b # << >>)

\* _save_pending_message: the message joins the pending list
SavePending(t) ==
    /\ t = started + 1
    /\ hpc[t] = "idle"
    /\ started' = t
    /\ pending' = AddPendingMessage(pending, t)
    /\ hpc' = [hpc EXCEPT ![t] = "appended"]
    /\ prevDrained' = [prevDrained EXCEPT ![t] =
                          t > 1 /\ hpc[t - 1] \in {"processing", "done"}]
    /\ UNCHANGED << lock, readLock, batches, inOrder, overwritten, nextWrote, varsNotDebounce >>

\* set_debounce_lock(sender, lock_id), then the task goes to sleep
SetDebounceLock(t) ==
    /\ hpc[t] = "appended"
    /\ lock' = t
    /\ hpc' = [hpc EXCEPT ![t] = "sleeping"]
    /\ overwritten' = [u \in Handlers |->
                          overwritten[u] \/ (u # t /\ hpc[u] = "sleeping")]
    /\ inOrder' = (inOrder /\ \A u \in 1..(t - 1) : hpc[u] # "appended")
    /\ UNCHANGED << pending, started, readLock, batches, prevDrained, nextWrote, varsNotDebounce >>

\* the sleep is over: get_debounce_lock and the comparison with the own token
GetDebounceLock(t) ==
    /\ hpc[t] = "sleeping"
    /\ readLock' = [readLock EXCEPT ![t] = lock]
    /\ hpc' = [hpc EXCEPT ![t] = IF TokenMatches(lock, t) THEN "passed" ELSE "stale"]
    /\ nextWrote' = [nextWrote EXCEPT ![t] =
                        t + 1 \in Handlers /\ hpc[t + 1] \notin {"idle", "appended"}]
    /\ UNCHANGED << lock, pending, started, batches, prevDrained, inOrder, overwritten,
                    varsNotDebounce >>

\* clear_debounce_lock : DEL
ClearDebounceLock(t) ==
    /\ hpc[t] = "passed"
    /\ lock' = NoLock
    /\ hpc' = [hpc EXCEPT ![t] = "cleared"]
    /\ UNCHANGED << pending, started, readLock, batches, prevDrained, inOrder, overwritten,
                    nextWrote, varsNotDebounce >>

\* get_and_clear_pending_messages and the "if not pending: return" after it
DrainPending(t) ==
    /\ hpc[t] = "cleared"
    /\ LET r == GetAndClearPendingMessages(pending)
       IN /\ pending' = r.rest
          /\ batches' = Append(batches, r.batch)
          /\ hpc' = [hpc EXCEPT ![t] = IF r.batch = << >> THEN "empty" ELSE "processing"]
    /\ UNCHANGED << lock, started, readLock, prevDrained, inOrder, overwritten, nextWrote,
                    varsNotDebounce >>

\* _process_with_classification returns
ProcessingDone(t) ==
    /\ hpc[t] = "processing"
    /\ hpc' = [hpc EXCEPT ![t] = "done"]
    /\ UNCHANGED << lock, pending, started, readLock, batches, prevDrained,
                    inOrder, overwritten, nextWrote, varsNotDebounce >>

NextDebounce ==
    \/ \E t \in Handlers : SavePending(t)
    \/ \E t \in Handlers : SetDebounceLock(t)
    \/ \E t \in Handlers : GetDebounceLock(t)
    \/ \E t \in Handlers : ClearDebounceLock(t)
    \/ \E t \in Handlers : DrainPending(t)
    \/ \E t \in Handlers : ProcessingDone(t)


(***************************************************************************)
(* nodes/rate_limiter.py : save_message_count, _save_to_firestore,         *)
(* _memory_increment and check_rate_limit for one sender.  A run reads     *)
(* the document (await), decides on the snapshot and writes (await); the   *)
(* writes are Firestore set/update calls, Increment(1) being applied by    *)
(* the server to the value stored at that moment.                          *)
(*   idle -> reading -> writing -> done                                    *)
(***************************************************************************)
Calls == 1..MaxCalls
NoDoc == [exists |-> FALSE, date |-> 0 - 1, daily |-> 0, total |-> 0]
NoMem == [present |-> FALSE, date |-> 0 - 1, count |-> 0]
NoOut == [count |-> 0, isNew |-> FALSE, isReset |-> FALSE]
IdleCall ==
    [pc |-> "idle", reset |-> FALSE, day |-> 0, snap |-> NoDoc, out |-> NoOut,
     limited |-> FALSE, before |-> 0, wrote |-> NoDoc]

\* _memory_increment without the date test: the count of the day before goes on
MemoryIncrement_NoRollover(entry, day) ==
    [present |-> TRUE, date |-> day, count |-> entry.count + 1]

\* _memory_increment storing 1 on every call
MemoryIncrement_Restart(entry, day) == [present |-> TRUE, date |-> day, count |-> 1]

\* _memory_increment : the entry after the call (the new count is its count)
MemoryIncrement(entry, day) ==
    IF ~entry.present \/ entry.date # day
    THEN [present |-> TRUE, date |-> day, count |-> 1]
    ELSE [entry EXCEPT !.count = @ + 1]

\* check_rate_limit : "if daily_count >= limit" -> rate_limited
RateLimited(dailyCount, lim) == dailyCount >= lim

\* _route_after_save_count and check_rate_limit: a /reset goes to
\* handle_reset_command, everything else through check_rate_limit
Routed(out, lim) == IF out.isReset THEN FALSE ELSE RateLimited(out.count, lim)

\* _save_to_firestore without case D: a full counter is incremented as well
Decision_NoCaseD(c) ==
    IF c.reset THEN "reset"
    ELSE IF ~c.snap.exists THEN "create"
    ELSE IF c.day # c.snap.date THEN "newday"
    ELSE "incr"

\* _save_to_firestore : the write a run decides on from its snapshot
\*   "reset" | "create" (case A) | "newday" (case B) | "none" (case D) | "incr" (case C)
Decision(c) ==
    IF c.reset THEN "reset"
    ELSE IF ~c.snap.exists THEN "create"
    ELSE IF c.day # c.snap.date THEN "newday"
    ELSE IF c.snap.daily >= limit THEN "none"
    ELSE "incr"

\* the document after the write, applied to the stored document d
Written(c, d) ==
    CASE Decision(c) = "reset" ->
            [exists |-> TRUE, date |-> c.day, daily |-> 0, total |-> 0]
      [] Decision(c) = "create" ->
            [exists |-> TRUE, date |-> c.day, daily |-> 1, total |-> 1]
      [] Decision(c) = "newday" ->
            [exists |-> TRUE, date |-> c.day, daily |-> 1, total |-> d.total + 1]
      [] Decision(c) = "incr" ->
            [d EXCEPT !.daily = @ + 1, !.total = @ + 1]
      [] OTHER -> d

\* a run that returns the old day's count plus one on the first message of a day
Outcome_NoRollover(c) ==
    [count |-> IF Decision(c) = "reset" THEN 0
               ELSE IF Decision(c) = "none" THEN c.snap.daily ELSE c.snap.daily + 1,
     isNew |-> Decision(c) = "create",
     isReset |-> Decision(c) = "reset"]

\* the state the run returns
Outcome(c) ==
    LET isNew == c.snap.exists /\ c.snap.total = 0
    IN CASE Decision(c) = "reset" -> [count |-> 0, isNew |-> FALSE, isReset |-> TRUE]
         [] Decision(c) = "create" -> [count |-> 1, isNew |-> TRUE, isReset |-> FALSE]
         [] Decision(c) = "newday" -> [count |-> 1, isNew |-> isNew, isReset |-> FALSE]
         [] Decision(c) = "incr" ->
               [count |-> c.snap.daily + 1, isNew |-> isNew, isReset |-> FALSE]
         [] OTHER -> [count |-> c.snap.daily, isNew |-> isNew, isReset |-> FALSE]

\* the daily count stored for the day, in the store that serves the runs
StoredToday ==
    IF dbAvailable
    THEN IF doc.exists /\ doc.date = today THEN doc.daily ELSE 0
    ELSE IF mem.present /\ mem.date = today THEN mem.count ELSE 0

InFlight(k) == calls[k].pc \in {"reading", "writing"}

Finish(k, c, out) ==
    [c EXCEPT !.pc = "done", !.out = out, !.limited = Routed(out, limit)]

\* "except Exception" of _save_to_firestore: count in memory instead
FallBack(k, c) ==
    LET m == MemoryIncrement(mem, today)
    IN /\ mem' = m
       /\ calls' = [calls EXCEPT ![k] =
                       Finish(k, c, [count |-> m.count, isNew |-> FALSE, isReset |-> FALSE])]

\* save_message_count up to the first await; without a Firestore client the
\* whole run is served from memory at once
RateStart(k, isReset) ==
    /\ k = callsStarted + 1
    /\ calls[k].pc = "idle"
    /\ Cardinality({j \in Calls : InFlight(j)}) < MaxInFlight
    /\ callsStarted' = k
    /\ sequential' = (sequential /\ \A j \in Calls : ~InFlight(j))
    /\ LET c == [calls[k] EXCEPT !.reset = isReset, !.day = today, !.before = StoredToday]
       IN IF dbAvailable
          THEN /\ calls' = [calls EXCEPT ![k] = [c EXCEPT !.pc = "reading"]]
               /\ mem' = mem
          ELSE IF isReset
          THEN /\ mem' = NoMem
               /\ calls' = [calls EXCEPT ![k] =
                               Finish(k, c, [count |-> 0, isNew |-> FALSE, isReset |-> TRUE])]
          ELSE FallBack(k, c)
    /\ UNCHANGED << limit, dbAvailable, today, doc, storeFailed, varsNotRate >>

\* doc_ref.get returns; case D ends the run without a write
RateRead(k) ==
    /\ calls[k].pc = "reading"
    /\ LET c == [calls[k] EXCEPT !.snap = doc]
       IN calls' = [calls EXCEPT ![k] =
                       IF Decision(c) = "none"
                       THEN [Finish(k, c, Outcome(c)) EXCEPT !.wrote = doc]
                       ELSE [c EXCEPT !.pc = "writing"]]
    /\ UNCHANGED << limit, dbAvailable, today, doc, mem, callsStarted, sequential,
                    storeFailed, varsNotRate >>

\* doc_ref.set / doc_ref.update returns
RateWrite(k) ==
    /\ calls[k].pc = "writing"
    /\ doc' = Written(calls[k], doc)
    /\ calls' = [calls EXCEPT ![k] =
                    [Finish(k, calls[k], Outcome(calls[k])) EXCEPT !.wrote = doc']]
    /\ UNCHANGED << limit, dbAvailable, today, mem, callsStarted, sequential,
                    storeFailed, varsNotRate >>

\* doc_ref.get, set or update raises
RateStoreFails(k) ==
    /\ InFlight(k)
    /\ storeFailed' = TRUE
    /\ FallBack(k, calls[k])
    /\ UNCHANGED << limit, dbAvailable, today, doc, callsStarted, sequential,
                    varsNotRate >>

NextDay ==
    /\ today < MaxDay
    /\ today' = today + 1
    /\ UNCHANGED << limit, dbAvailable, doc, mem, calls, callsStarted, sequential,
                    storeFailed, varsNotRate >>

IdleRate ==
    /\ limit = 1
    /\ dbAvailable = TRUE
    /\ today = 0
    /\ doc = NoDoc
    /\ mem = NoMem
    /\ calls = [k \in Calls |-> IdleCall]
    /\ callsStarted = 0
    /\ sequential = TRUE
    /\ storeFailed = FALSE

InitRateLimiter ==
    /\ limit \in 1..MaxLimit
    /\ dbAvailable \in BOOLEAN
    /\ today = 0
    /\ doc = NoDoc
    /\ mem = NoMem
    /\ calls = [k \in Calls |-> IdleCall]
    /\ callsStarted = 0
    /\ sequential = TRUE
    /\ storeFailed = FALSE

NextRate ==
    \/ \E k \in Calls, r \in BOOLEAN : RateStart(k, r)
    \/ \E k \in Calls : RateRead(k)
    \/ \E k \in Calls : RateWrite(k)
    \/ \E k \in Calls : RateStoreFails(k)
    \/ NextDay


(***************************************************************************)
(* nodes/message_handler.py : handle_incoming_message for one sender.      *)
(* Every awaited Redis call is one step; mark_as_read and the sends are    *)
(* folded into the neighbouring step.  The debounce sleep is the "sleep"   *)
(* position; as above no TTL expires within it.                            *)
(*   text:   entered -> (register -> set_terms | check_terms) -> save      *)
(*           [-> chat] -> lock -> sleep -> (done | clear -> prompt|drain   *)
(*           [-> reply]) -> done                                           *)
(*   delete: entered -> done                                               *)
(***************************************************************************)
HandlerIds == 1..MaxHandlers
Kinds == {"text", "delete"}
IdleHandlerTask == [kind |-> "text", branch |-> "none", pc |-> "idle"]

HAt(h, pc) == hs[h].pc = pc
HGo(h, pc) == [hs EXCEPT ![h].pc = pc]

\* the task is created for the next message of the sender
HEnter(h, kind) ==
    /\ h = hStarted + 1
    /\ HAt(h, "idle")
    /\ hStarted' = h
    /\ hs' = [hs EXCEPT ![h] = [kind |-> kind, branch |-> "none", pc |-> "entered"]]
    /\ UNCHANGED << registered, terms, hLock, hPending, chat, sawNew, registerCalls,
                    prompts, varsNotHandler >>

\* _handle_delete : unregister_user deletes the five keys in one DEL
HUnregister(h) ==
    /\ HAt(h, "entered") /\ hs[h].kind = "delete"
    /\ registered' = FALSE
    /\ terms' = "none"
    /\ hPending' = << >>
    /\ chat' = FALSE
    /\ hLock' = NoLock
    /\ hs' = [hs EXCEPT ![h] = [@ EXCEPT !.branch = "delete", !.pc = "done"]]
    /\ UNCHANGED << hStarted, sawNew, registerCalls, prompts, varsNotHandler >>

\* "is_registered = await redis_client.is_user_registered(sender)"
HCheckRegistered(h) ==
    /\ HAt(h, "entered") /\ hs[h].kind = "text"
    /\ IF registered
       THEN /\ hs' = HGo(h, "check_terms")
            /\ sawNew' = sawNew
       ELSE /\ hs' = [hs EXCEPT ![h] = [@ EXCEPT !.branch = "new", !.pc = "register"]]
            /\ sawNew' = sawNew \cup {h}
    /\ UNCHANGED << registered, terms, hLock, hPending, chat, hStarted, registerCalls,
                    prompts, varsNotHandler >>

\* "terms_status = await redis_client.get_terms_status(sender)"
HGetTerms(h) ==
    /\ HAt(h, "check_terms")
    /\ hs' = [hs EXCEPT ![h] =
                 [@ EXCEPT !.branch = IF terms = "yes" THEN "debounce" ELSE "terms",
                           !.pc = "save"]]
    /\ UNCHANGED << registered, terms, hLock, hPending, chat, hStarted, sawNew,
                    registerCalls, prompts, varsNotHandler >>

\* _handle_new_user : register_user
HRegister(h) ==
    /\ HAt(h, "register")
    /\ registered' = TRUE
    /\ registerCalls' = registerCalls + 1
    /\ hs' = HGo(h, "set_terms")
    /\ UNCHANGED << terms, hLock, hPending, chat, hStarted, sawNew, prompts,
                    varsNotHandler >>

\* _handle_new_user : set_terms_status(sender, False)
HSetTermsPending(h) ==
    /\ HAt(h, "set_terms")
    /\ terms' = "no"
    /\ hs' = HGo(h, "save")
    /\ UNCHANGED << registered, hLock, hPending, chat, hStarted, sawNew, registerCalls,
                    prompts, varsNotHandler >>

\* _save_pending_message, in all three branches
HSavePending(h) ==
    /\ HAt(h, "save")
    /\ hPending' = AddPendingMessage(hPending, h)
    /\ hs' = HGo(h, IF hs[h].branch = "debounce" THEN "chat" ELSE "lock")
    /\ UNCHANGED << registered, terms, hLock, chat, hStarted, sawNew, registerCalls,
                    prompts, varsNotHandler >>

\* _handle_message_with_debounce : add_chat_message(sender, "user", ...)
HAddChat(h) ==
    /\ HAt(h, "chat")
    /\ chat' = TRUE
    /\ hs' = HGo(h, "lock")
    /\ UNCHANGED << registered, terms, hLock, hPending, hStarted, sawNew, registerCalls,
                    prompts, varsNotHandler >>

\* set_debounce_lock with a fresh token, then the sleep begins
HSetLock(h) ==
    /\ HAt(h, "lock")
    /\ hLock' = h
    /\ hs' = HGo(h, "sleep")
    /\ UNCHANGED << registered, terms, hPending, chat, hStarted, sawNew, registerCalls,
                    prompts, varsNotHandler >>

\* get_debounce_lock after the sleep and the comparison with the own token
HGetLock(h) ==
    /\ HAt(h, "sleep")
    /\ hs' = HGo(h, IF TokenMatches(hLock, h) THEN "clear" ELSE "done")
    /\ UNCHANGED << registered, terms, hLock, hPending, chat, hStarted, sawNew,
                    registerCalls, prompts, varsNotHandler >>

\* clear_debounce_lock
HClearLock(h) ==
    /\ HAt(h, "clear")
    /\ hLock' = NoLock
    /\ hs' = HGo(h, IF hs[h].branch = "debounce" THEN "drain" ELSE "prompt")
    /\ UNCHANGED << registered, terms, hPending, chat, hStarted, sawNew, registerCalls,
                    prompts, varsNotHandler >>

\* send_interactive_buttons : the welcome or the terms prompt
HSendPrompt(h) ==
    /\ HAt(h, "prompt")
    /\ prompts' = Min(prompts + 1, MaxHandlers)
    /\ hs' = HGo(h, "done")
    /\ UNCHANGED << registered, terms, hLock, hPending, chat, hStarted, sawNew,
                    registerCalls, varsNotHandler >>

\* get_and_clear_pending_messages; an empty batch ends the task
HDrain(h) ==
    /\ HAt(h, "drain")
    /\ LET r == GetAndClearPendingMessages(hPending)
       IN /\ hPending' = r.rest
          /\ hs' = HGo(h, IF r.batch = << >> THEN "done" ELSE "reply")
    /\ UNCHANGED << registered, terms, hLock, chat, hStarted, sawNew, registerCalls,
                    prompts, varsNotHandler >>

\* _process_with_classification : the reply is added to the chat history
HReply(h) ==
    /\ HAt(h, "reply")
    /\ chat' = TRUE
    /\ hs' = HGo(h, "done")
    /\ UNCHANGED << registered, terms, hLock, hPending, hStarted, sawNew, registerCalls,
                    prompts, varsNotHandler >>

IdleHandler ==
    /\ registered = FALSE
    /\ terms = "none"
    /\ hLock = NoLock
    /\ hPending = << >>
    /\ chat = FALSE
    /\ hs = [h \in HandlerIds |-> IdleHandlerTask]
    /\ hStarted = 0
    /\ sawNew = {}
    /\ registerCalls = 0
    /\ prompts = 0

\* the sender is unknown, has been asked for consent, or has consented
InitHandlerPart ==
    /\ \E known \in { << FALSE, "none" >>, << TRUE, "no" >>, << TRUE, "yes" >> } :
          /\ registered = known[1]
          /\ terms = known[2]
          /\ chat \in {known[2] = "yes", FALSE}
    /\ hLock = NoLock
    /\ hPending = << >>
    /\ hs = [h \in HandlerIds |-> IdleHandlerTask]
    /\ hStarted = 0
    /\ sawNew = {}
    /\ registerCalls = 0
    /\ prompts = 0

NextHandler ==
    \/ \E h \in HandlerIds, kind \in Kinds : HEnter(h, kind)
    \/ \E h \in HandlerIds : HUnregister(h)
    \/ \E h \in HandlerIds : HCheckRegistered(h)
    \/ \E h \in HandlerIds : HGetTerms(h)
    \/ \E h \in HandlerIds : HRegister(h)
    \/ \E h \in HandlerIds : HSetTermsPending(h)
    \/ \E h \in HandlerIds : HSavePending(h)
    \/ \E h \in HandlerIds : HAddChat(h)
    \/ \E h \in HandlerIds : HSetLock(h)
    \/ \E h \in HandlerIds : HGetLock(h)
    \/ \E h \in HandlerIds : HClearLock(h)
    \/ \E h \in HandlerIds : HSendPrompt(h)
    \/ \E h \in HandlerIds : HDrain(h)
    \/ \E h \in HandlerIds : HReply(h)

vars == << varsIngest, varsDebounce, varsRate, varsHandler, varsMore >>

Init == InitIngest /\ IdleDebounce /\ IdleRate /\ IdleHandler

Next == NextIngest

Spec == Init /\ [][Next]_vars

(***************************************************************************)
(* The processing side: the tasks the workers create, fed by payloads      *)
(* whose messages are dispatched.                                          *)
(***************************************************************************)
TaskPayloads ==
    {p \in Payloads :
        /\ p.valid
        /\ p.sig # "bad"
        /\ \A k \in DOMAIN p.changes :
              p.changes[k].kind = "change" /\ ~p.changes[k].statuses}

InitTasks == InitIngest /\ appSecret = FALSE /\ IdleDebounce /\ IdleRate /\ IdleHandler

NextProcessing ==
    \/ \E p \in TaskPayloads : HandleWebhook(p, FALSE)
    \/ EnqueuePut
    \/ EnqueueSuspend
    \/ EnqueueResume
    \/ \E w \in Workers : WorkerHandle(w)
    \/ Startup
    \/ NextTasks

SpecTasks == InitTasks /\ [][NextProcessing]_vars

\* intake, processing tasks and the shutdown sequence
NextLifecycle ==
    \/ NextProcessing
    \/ BeginShutdown
    \/ GraceOver
    \/ \E t \in TaskRecs : TaskCancelled(t)
    \/ ShutdownComplete

SpecLifecycle == InitTasks /\ [][NextLifecycle]_vars

\* intake, processing tasks and the health endpoint
NextHealth ==
    \/ NextProcessing
    \/ HealthCheck

SpecHealth == InitTasks /\ [][NextHealth]_vars

IdleIngest == InitIngest /\ appSecret = FALSE

InitDebounce == IdleIngest /\ IdleDebounce /\ IdleRate /\ IdleHandler

SpecDebounce == InitDebounce /\ [][NextDebounce]_vars

InitRate == IdleIngest /\ IdleDebounce /\ InitRateLimiter /\ IdleHandler

SpecRate == InitRate /\ [][NextRate]_vars

InitHandler == IdleIngest /\ IdleDebounce /\ IdleRate /\ InitHandlerPart

SpecHandler == InitHandler /\ [][NextHandler]_vars

(***************************************************************************)
(* Claims                                                                  *)
(***************************************************************************)

\* C1: every POST /webhook the intercept handles is answered with status 200
\* and the fixed JSON body, whether the queue exists or not, is full or not,
\* shutdown has begun or not, and whether creating the enqueue task failed.
C1_AlwaysOk ==
    lastResponse # NoResponse =>
        lastResponse.status = StatusOk /\ lastResponse.body = OkBody

\* a request answered during shutdown with the queue full: nothing was enqueued
C1_Witness ==
    /\ lastResponse.shutdown
    /\ lastResponse.full
    /\ lastResponse.enq = "skipped"
    /\ lastResponse.status = StatusOk

\* C2 (as claimed): the enqueue step never suspends waiting for free space;
\* a payload that finds the queue full is dropped.
C2_NeverSuspends == enqBlocked = << >>

\* C3: a non-empty id that reached the dedup check has been dispatched, and
\* two tasks for one id are more than the dedup TTL apart: deliveries of the
\* id within the TTL of its dispatch create no second task.
C3_Idempotent ==
    \A i \in RealIds :
        /\ delivered[i] >= 1 => Len(dispatchLog[i]) >= 1
        /\ \A a, b \in 1..Len(dispatchLog[i]) :
              a < b => dispatchLog[i][b] - dispatchLog[i][a] > _DEDUP_TTL

\* an id delivered twice at the same instant and dispatched once
C3_Witness ==
    \E i \in RealIds :
        /\ delivered[i] = 2
        /\ Len(dispatchLog[i]) = 1
        /\ dispatchLog[i][1] = now

\* C4: the processing tasks between acquiring and releasing a permit never
\* outnumber the permits.
C4_ConcurrencyBound == InCritical <= MaxConcurrent

\* all permits taken while a further task waits for one
C4_Witness == InCritical = MaxConcurrent /\ Waiting >= 1

Settled(t) == hpc[t] \in {"stale", "empty", "processing", "done"}
Fired(t) == hpc[t] \in {"passed", "cleared", "empty", "processing", "done"}
Occurrences(list, m) == Cardinality({k \in DOMAIN list : list[k] = m})
RECURSIVE Flatten(_)
Flatten(ls) == IF ls = << >> THEN << >> ELSE Head(ls) \o Flatten(Tail(ls))
BatchOf(m) ==
    IF \E k \in DOMAIN NonEmptyBatches : Occurrences(NonEmptyBatches[k], m) > 0
    THEN CHOOSE k \in DOMAIN NonEmptyBatches : Occurrences(NonEmptyBatches[k], m) > 0
    ELSE 0
\* the messages handled so far arrived as bursts: the tokens were written in
\* the order of the messages, and each later message either wrote its token
\* before the previous task woke (same burst) or was handled after the
\* previous task had drained (next burst)
InBursts ==
    /\ started >= 1
    /\ inOrder
    /\ \A t \in 1..started : Settled(t)
    /\ \A t \in 1..(started - 1) : nextWrote[t] \/ prevDrained[t + 1]

C6_StaleExits ==
    [][\A t \in Handlers :
          (hpc'[t] # hpc[t] /\ readLock'[t] # NotRead /\ readLock'[t] # t) =>
              /\ hpc'[t] = "stale"
              /\ lock' = lock
              /\ pending' = pending
              /\ batches' = batches]_vars

\* one task found another token, one found no lock; both ended stale
C6_Witness ==
    \E t, u \in Handlers :
        /\ hpc[t] = "stale" /\ readLock[t] = NoLock
        /\ hpc[u] = "stale" /\ readLock[u] \notin {NoLock, NotRead, u}

\* C7: a task whose token was overwritten while it slept never passes the
\* comparison: of the tasks sleeping at the same time only the one that wrote
\* the last token can fire.
C7_OnlyLastFires ==
    \A t \in Handlers : overwritten[t] => ~Fired(t)

\* two tasks slept at the same time, the first went stale, the second drained
C7_Witness ==
    \E t, u \in Handlers :
        /\ t < u
        /\ overwritten[t] /\ hpc[t] = "stale"
        /\ ~overwritten[u] /\ hpc[u] = "processing"

\* C8: every message appended is either still in the pending list or in
\* exactly one drained batch: no drain returns a record twice and none
\* deletes a record without returning it.
C8_DrainedOnce ==
    \A m \in 1..started :
        Occurrences(Flatten(batches), m) + Occurrences(pending, m) = 1

\* two drains: the first returned the message of the second task as well,
\* the second came back empty
C8_Witness ==
    \E t, u \in Handlers :
        /\ hpc[t] = "empty"
        /\ hpc[u] \in {"processing", "done"}
        /\ BatchOf(t) # 0

\* the run was the sender's first message on a new day after a day on which
\* the stored count had reached the limit
RolledOver(c) ==
    /\ c.pc = "done"
    /\ ~c.reset
    /\ c.snap.exists
    /\ c.snap.date # c.day
    /\ c.snap.daily >= limit

\* C9 (as claimed): with sequential handling a message is reported blocked
\* only if the daily count stored for today was already >= the limit before
\* it, so the first L messages of a day pass.
C9_BlockedOnlyAtLimit ==
    (sequential /\ ~storeFailed) =>
        \A k \in Calls :
            (calls[k].pc = "done" /\ calls[k].limited) => calls[k].before >= limit

\* C10 (as claimed): for every limit >= 1 the first message on the day after
\* a day at the limit sets the daily count to 1, adds one to the lifetime
\* count and is not blocked.
C10_Rollover ==
    (sequential /\ ~storeFailed) =>
        \A k \in Calls :
            RolledOver(calls[k]) =>
                /\ calls[k].wrote.daily = 1
                /\ calls[k].wrote.total = calls[k].snap.total + 1
                /\ ~calls[k].limited

\* the counters of the store that serves the runs are zero
CountersZero ==
    IF dbAvailable
    THEN doc.exists /\ doc.daily = 0 /\ doc.total = 0
    ELSE ~mem.present \/ mem.count = 0

\* C11 (as claimed): a /reset run always ends flagged as a reset command, is
\* routed past the limit check and leaves the sender's daily and lifetime
\* counters at zero, whether the store works or fails during the run.
C11_ResetAlwaysSucceeds ==
    \A k \in Calls :
        (calls[k].pc = "done" /\ calls[k].reset) =>
            /\ calls[k].out.isReset
            /\ ~calls[k].limited
            /\ ((sequential /\ k = callsStarted) => CountersZero)

\* C12: with no Firestore client for the whole run the in-memory fallback
\* counts every message (the count returned is the stored count plus one),
\* blocks every message sent once the stored count has reached the limit and
\* lets no message pass with a count above the limit.
C12_FallbackBlocks ==
    ~dbAvailable =>
        \A k \in Calls :
            (calls[k].pc = "done" /\ ~calls[k].reset) =>
                /\ calls[k].out.count = calls[k].before + 1
                /\ (calls[k].before >= limit => calls[k].limited)
                /\ (~calls[k].limited => calls[k].out.count <= limit)
C12_Witness ==
    /\ ~dbAvailable
    /\ limit = 2
    /\ today = 0
    /\ \A k \in Calls : calls[k].pc = "done" /\ ~calls[k].reset
    /\ ~calls[1].limited
    /\ calls[3].before = 2 /\ calls[3].limited
    /\ mem.count = 3

\* every started run is over, none was a /reset, none met the limit, all ran
\* on the same day against a working store
AllCounted ==
    /\ dbAvailable
    /\ ~storeFailed
    /\ today = 0
    /\ callsStarted >= 1
    /\ callsStarted <= limit
    /\ \A k \in 1..callsStarted :
          calls[k].pc = "done" /\ ~calls[k].reset /\ Decision(calls[k]) # "none"

\* C13 (as claimed): after any interleaving of k runs of one sender on one
\* day that stay under the limit, first-contact runs included, the stored
\* daily and lifetime counts have both grown by exactly k.
C13_NoLostUpdates ==
    AllCounted => (doc.daily = callsStarted /\ doc.total = callsStarted)

\* C14 (as claimed): the first message ever of a sender creates the record
\* with daily 1 and lifetime 1 dated today and is reported as a new user,
\* with the durable store and with the in-memory fallback alike; later
\* messages are not reported as new unless the counters were reset.
C14_FirstMessageIsNew ==
    (sequential /\ ~storeFailed) =>
        /\ (calls[1].pc = "done" /\ ~calls[1].reset) =>
              /\ calls[1].out.isNew
              /\ calls[1].out.count = 1
              /\ dbAvailable =>
                    calls[1].wrote =
                        [exists |-> TRUE, date |-> calls[1].day, daily |-> 1, total |-> 1]
        /\ \A k \in Calls :
              (/\ k > 1
               /\ calls[k].pc = "done"
               /\ \A j \in 1..k : ~calls[j].reset) => ~calls[k].out.isNew

\* C15 (as claimed): of the handlers of one unregistered sender at most one
\* reads "not registered" and takes the new-user branch, so that the sender
\* is registered exactly once.
C15_RegisteredOnce ==
    (\A h \in HandlerIds : hs[h].kind # "delete") =>
        /\ Cardinality(sawNew) <= 1
        /\ registerCalls <= 1

\* none of the sender's five Redis records exists
NoRecords ==
    /\ ~registered
    /\ terms = "none"
    /\ hPending = << >>
    /\ ~chat
    /\ hLock = NoLock

\* C20 (as claimed): once a /delete of the sender has been handled none of
\* the sender's records exists, whatever handlers of earlier messages are
\* still in flight, until a message received after the /delete is handled.
C20_Forgotten ==
    \A d \in HandlerIds :
        (hs[d].kind = "delete" /\ hs[d].pc = "done" /\ hStarted = d) => NoRecords

\* C16: the tasks that have passed "async with _concurrency_sem" (typing
\* indicator, workflow, notices) are exactly the holders of the permits
\* taken, on every path: completion, workflow exception or timeout and
\* cancellation; so with no task in flight all permits are available.
C16_PermitsReturned ==
    queueCreated =>
        /\ sem + InCritical = MaxConcurrent
        /\ (BagSize(tasks, TaskRecs) = 0 => sem = MaxConcurrent)
C16_Witness ==
    /\ shutdown = "complete"
    /\ forced >= 1
    /\ totalProcessed >= 1
    /\ totalErrors >= 1
    /\ BagSize(tasks, TaskRecs) = 0
    /\ sem = MaxConcurrent

\* C17: the queue never holds more payloads than its capacity, and every
\* health report made while the queue exists gives as queue_size the number
\* of payloads in the queue at that moment.
C17_QueueBounded ==
    /\ [](Len(queue) <= QueueMax)
    /\ [][(health' # health /\ queueCreated') => health'.queueSize = Len(queue')]_vars
C17_Witness ==
    /\ Len(queue) = QueueMax
    /\ health.queueSize = QueueMax
    /\ totalReceived > QueueMax

\* the messages a worker has to handle in an item that passes the signature
\* check and parses: not of an ignored type, with an id, well-formed, and in
\* a well-formed change at position k or later
Handleable(item, from) ==
    IF HmacVerdict(appSecret, item.sig) = "discard" \/ ~item.valid THEN {}
    ELSE LET good == {k \in DOMAIN item.changes :
                        /\ k >= from
                        /\ item.changes[k].kind = "change"
                        /\ ~item.changes[k].statuses}
             msgs == UNION {{item.changes[k].messages[i] :
                               i \in DOMAIN item.changes[k].messages} : k \in good}
         IN {m.id : m \in {x \in msgs : /\ x.type # "malformed"
                                         /\ x.type \notin IgnoredTypes
                                         /\ x.id # ""}}

\* the position after which an item is given up: the first malformed entry
GivenUpAt(item) ==
    LET bad == {k \in DOMAIN item.changes : item.changes[k].kind = "bad_entry"}
    IN IF bad = {} THEN Len(item.changes) + 1
       ELSE CHOOSE k \in bad : \A j \in bad : k <= j

\* a worker step that handled the head of the queue reached the dedup check
\* for every id of the set
Reached(ids) == \A i \in ids : delivered'[i] > delivered[i] \/ delivered[i] = 2

WorkerStep == queue # << >> /\ queue' = Tail(queue)

\* a worker loop ends only in the step that begins the shutdown
EndsOnlyByCancel ==
    (workersAlive' # workersAlive /\ workersAlive # {}) => (~shuttingDown /\ shuttingDown')

\* C18 (as claimed): a worker loop ends only through cancellation, and no
\* invalid signature, invalid JSON, malformed structure or failing message
\* keeps the other messages of the same payload or later items from being
\* handled.
C18_WorkerNeverStops ==
    [][/\ EndsOnlyByCancel
       /\ WorkerStep => Reached(Handleable(Head(queue), 1))]_vars

\* C18 (amended): a worker loop ends only through cancellation and every
\* item is taken off the queue whatever it holds; a malformed or failing
\* message or change does not keep the other messages of the payload from
\* being handled, while a malformed entry makes the worker give up the rest
\* of that payload only.
C18_WorkerSurvives ==
    [][/\ EndsOnlyByCancel
       /\ WorkerStep =>
            LET item == Head(queue)
                seen == Handleable(item, 1) \ Handleable(item, GivenUpAt(item))
            IN /\ Reached(seen)
               /\ \A i \in RealIds \ seen : delivered'[i] = delivered[i]]_vars
C18_Witness ==
    /\ workersAlive = Workers
    /\ delivered["m2"] >= 1
    /\ delivered["m1"] = 0
    /\ totalReceived >= 3
    /\ queue = << >> /\ enqReady = << >> /\ enqBlocked = << >>

Sender == "5511999990000"
HASH_SALT == "salt"

\* rate_limiter._hash_phone : sha256(f"{phone}{salt}")
_hash_phone(phone) == [sha256 |-> << phone, HASH_SALT >>]

\* redis_client : f"user:{phone}:<field>"
UserKey(phone, field) == << "user", phone, field >>

\* the keys present in Redis, in the Firestore collection and in _memory_counts
RedisKeys ==
    (IF registered THEN {UserKey(Sender, "registered")} ELSE {})
    \cup (IF terms # "none" THEN {UserKey(Sender, "terms_accepted")} ELSE {})
    \cup (IF hPending # << >> THEN {UserKey(Sender, "pending_messages")} ELSE {})
    \cup (IF chat THEN {UserKey(Sender, "chat_history")} ELSE {})
    \cup (IF hLock # NoLock THEN {UserKey(Sender, "debounce_lock")} ELSE {})

RateKeys ==
    (IF doc # NoDoc THEN {<< _hash_phone(Sender) >>} ELSE {})
    \cup (IF mem # NoMem THEN {<< _hash_phone(Sender) >>} ELSE {})

HoldsRaw(key, phone) == \E i \in 1..Len(key) : key[i] = phone

\* C21: every record persisted for a sender is keyed by the salted hash of
\* the sender identity; the raw identifier is part of no key of the durable
\* store or of the in-memory fallback.
C21_HashedKeys == \A key \in RedisKeys \cup RateKeys : ~HoldsRaw(key, Sender)

\* the read of run k returns in this step (a failing read counts in memory)
ReadReturns(k) ==
    /\ calls[k].pc = "reading"
    /\ calls'[k].pc # "reading"
    /\ mem' = mem

\* the stored record is of the run's day and its daily count is at the limit
AtLimit(k) ==
    /\ ~calls[k].reset
    /\ doc.exists
    /\ doc.date = calls[k].day
    /\ doc.daily >= limit

\* C22: when the stored date is today and the stored daily count is >= the
\* limit, a message's run writes nothing to the record (daily count, lifetime
\* count and date unchanged), returns the unchanged daily count, and the rate
\* check reports it as blocked.
C22_FullWritesNothing ==
    [][\A k \in Calls :
          (ReadReturns(k) /\ AtLimit(k)) =>
              /\ calls'[k].pc = "done"
              /\ doc' = doc
              /\ calls'[k].out.count = doc.daily
              /\ calls'[k].limited]_vars

C22_Witness ==
    \E k \in Calls :
        /\ calls[k].pc = "done"
        /\ ~calls[k].reset
        /\ calls[k].snap.exists
        /\ calls[k].snap.date = calls[k].day
        /\ calls[k].snap.daily >= limit
        /\ calls[k].out.count = calls[k].snap.daily
        /\ calls[k].limited
        /\ doc = calls[k].snap

\* the runs of messages (not /reset) that were started on the given day
MessagesOn(day) == {k \in Calls : calls[k].pc # "idle" /\ ~calls[k].reset /\ calls[k].day = day}

\* this step is the write of a /reset
ResetWrites ==
    \E k \in Calls : calls[k].reset /\ calls[k].pc = "writing" /\ calls'[k].pc = "done"

\* the stored daily count of one day only grows, except through /reset
DailyMonotonic ==
    (doc.exists /\ doc'.exists /\ doc'.date = doc.date /\ doc'.daily < doc.daily)
        => ResetWrites

\* all runs have returned, none was a /reset or fell back to memory, and the
\* day has changed since the first message
AfterDayChange ==
    /\ dbAvailable /\ ~storeFailed
    /\ \A k \in Calls : ~InFlight(k) /\ ~calls[k].reset
    /\ today > 0
    /\ MessagesOn(0) # {}
    /\ MessagesOn(today) # {}
    /\ Cardinality(MessagesOn(today)) < limit

\* C23: within one day the stored daily count of a sender never decreases
\* except through /reset, and at a day transition it is reset exactly once:
\* under any interleaving of the sender's messages around the date change,
\* after m messages on the new day (m below the limit) the stored daily count
\* is m.
C23_ResetOncePerDay ==
    /\ [][DailyMonotonic]_vars
    /\ [](AfterDayChange =>
             (doc.date = today /\ doc.daily = Cardinality(MessagesOn(today))))

\* C24: the stored daily count of a sender never exceeds the daily limit,
\* under any interleaving of concurrent runs for that sender.
C24_NeverAboveLimit == doc.exists => doc.daily <= limit

\* this step serves run k from _memory_counts: there is no Firestore client,
\* or a store operation of the run raises
ServedFromMemory(k) ==
    \/ calls[k].pc = "idle" /\ calls'[k].pc # "idle" /\ ~dbAvailable
    \/ InFlight(k) /\ calls'[k] # calls[k] /\ mem' # mem

\* a run that was served from memory and has returned
FellBack(k) == calls[k].pc = "done" /\ calls[k].wrote = NoDoc

\* C25: if the durable store is unavailable, or a durable-store operation of
\* a run fails, the run still returns (no exception escapes), and the count
\* it returns is the one of the in-process counter, which follows the same
\* rollover rule: the first message of a new day yields 1, a later one the
\* count of the day plus one.  (Without a store client a /reset clears the
\* counter and returns 0.)
C25_FallbackCounts ==
    [][\A k \in Calls :
          ServedFromMemory(k) =>
              /\ calls'[k].pc = "done"
              /\ IF calls'[k].reset /\ ~dbAvailable
                 THEN mem' = NoMem /\ calls'[k].out.count = 0
                 ELSE /\ mem'.present /\ mem'.date = today
                      /\ calls'[k].out.count = mem'.count
                      /\ calls'[k].out.count =
                            IF mem.present /\ mem.date = today THEN mem.count + 1 ELSE 1]_vars

C25_Witness ==
    /\ dbAvailable /\ storeFailed
    /\ today = 1
    /\ \E j, k \in Calls :
          /\ FellBack(j) /\ ~calls[j].reset /\ calls[j].day = 0
          /\ FellBack(k) /\ ~calls[k].reset /\ calls[k].day = 1
          /\ calls[k].out.count = 1
          /\ mem = [present |-> TRUE, date |-> 1, count |-> 1]

(***************************************************************************)
(* The two counter stores side by side: one sender's messages and /reset   *)
(* commands are handled one after the other, each of them by the Firestore *)
(* path (get, decide, write, with nothing in between) on doc and by the    *)
(* in-memory path on mem.  calls[k] keeps what the Firestore path returned *)
(* for command k; the in-memory path returns the count it leaves in mem.   *)
(***************************************************************************)
\* save_message_count without a client: the entry after the command
MemoryServe(entry, isReset, day) ==
    IF isReset THEN NoMem ELSE MemoryIncrement(entry, day)

\* check_rate_limit on what the in-memory path returned for a message
MemoryBlocked == RateLimited(mem.count, limit)

SeqCommand(k, isReset) ==
    /\ k = callsStarted + 1
    /\ calls[k].pc = "idle"
    /\ callsStarted' = k
    /\ LET c == [calls[k] EXCEPT !.reset = isReset, !.day = today, !.snap = doc,
                                 !.before = StoredToday]
       IN /\ doc' = Written(c, doc)
          /\ calls' = [calls EXCEPT ![k] =
                          [Finish(k, c, Outcome(c)) EXCEPT !.wrote = doc']]
    /\ mem' = MemoryServe(mem, isReset, today)
    /\ UNCHANGED << limit, dbAvailable, today, sequential, storeFailed, varsNotRate >>

InitContract ==
    /\ IdleIngest /\ IdleDebounce /\ IdleHandler
    /\ limit \in 1..MaxLimit
    /\ dbAvailable = TRUE
    /\ today = 0
    /\ doc = NoDoc
    /\ mem = NoMem
    /\ calls = [k \in Calls |-> IdleCall]
    /\ callsStarted = 0
    /\ sequential = TRUE
    /\ storeFailed = FALSE

NextContract ==
    \/ \E k \in Calls, r \in BOOLEAN : SeqCommand(k, r)
    \/ NextDay

SpecContract == InitContract /\ [][NextContract]_vars

\* C26: for every sequence of messages and /reset commands of one sender
\* over consecutive days, handled one after the other, the in-memory fallback
\* gives each message the same blocked/allowed decision as the durable path.
C26_SameDecision ==
    \A k \in Calls :
        (k = callsStarted /\ ~calls[k].reset) =>
            /\ mem.present
            /\ calls[k].limited = MemoryBlocked

C26_Witness ==
    /\ limit > 1
    /\ today = 1
    /\ \E j, k \in Calls :
          /\ j < k /\ k = callsStarted
          /\ calls[j].day = 0 /\ calls[j].limited /\ ~calls[j].reset
          /\ calls[k].day = 1 /\ ~calls[k].limited /\ ~calls[k].reset
          /\ ~MemoryBlocked

(***************************************************************************)
(* The debounce handlers when Redis may be unreachable: a redis_client     *)
(* call then raises (redis.exceptions.ConnectionError); neither            *)
(* redis_client nor message_handler catches it around these calls, so the  *)
(* handler task ends where it stands.                                      *)
(***************************************************************************)
\* the handler stands before a Redis call: add_pending_message,
\* set_debounce_lock, get_debounce_lock, clear_debounce_lock,
\* get_and_clear_pending_messages
AtRedisCall(t) ==
    \/ t = started + 1 /\ hpc[t] = "idle"
    \/ hpc[t] \in {"appended", "sleeping", "passed", "cleared"}

RedisRaises(t) ==
    /\ AtRedisCall(t)
    /\ started' = IF hpc[t] = "idle" THEN t ELSE started
    /\ hpc' = [hpc EXCEPT ![t] = "raised"]
    /\ UNCHANGED << lock, pending, readLock, batches, prevDrained, inOrder, overwritten,
                    nextWrote, varsNotDebounce >>

NextOutage ==
    \/ NextDebounce
    \/ \E t \in Handlers : RedisRaises(t)

SpecOutage == InitDebounce /\ [][NextOutage]_vars

\* the message is in the pending list or in a drained batch
Kept(t) == Occurrences(pending, t) + Occurrences(Flatten(batches), t) > 0

\* C27: if the durable store is unavailable the debounce coordinator degrades
\* to in-memory behaviour instead of failing: every inbound message handled
\* is still appended to the sender's pending list (and later delivered in a
\* batch).
C27_DegradesInMemory == \A t \in 1..started : hpc[t] # "idle" => Kept(t)

(***************************************************************************)
(* Progress of the debounce handlers: the event loop resumes every task    *)
(* whose await has completed, the Redis calls return and the sleep ends,   *)
(* so every step of a handler that has appended its message is weakly      *)
(* fair.  The arrival of a message (SavePending) is not.                   *)
(***************************************************************************)
HandlerProgress(t) ==
    /\ WF_vars(SetDebounceLock(t))
    /\ WF_vars(GetDebounceLock(t))
    /\ WF_vars(ClearDebounceLock(t))
    /\ WF_vars(DrainPending(t))
    /\ WF_vars(ProcessingDone(t))

SpecDebounceFair == SpecDebounce /\ \A t \in Handlers : HandlerProgress(t)

\* the message is part of a batch handed to _process_with_classification
Classified(t) == Occurrences(Flatten(NonEmptyBatches), t) > 0

\* C28: no pending message is lost: under any interleaving of the handlers of
\* one consenting sender (store available, no TTL expiring during the
\* debounce interval, no /delete), every message appended to the pending list
\* is eventually contained in a drained batch handed to classification.
C28_NoMessageLost ==
    \A t \in Handlers : (Occurrences(pending, t) > 0) ~> Classified(t)

\* a message whose own handler went inactive was drained by another handler
C28_Witness ==
    \E t \in Handlers :
        /\ hpc[t] = "stale"
        /\ Classified(t)
        /\ BatchOf(t) # 0
        /\ \E u \in Handlers : u # t /\ hpc[u] \in {"processing", "done"}

\* the signature header of the item at the head of the queue is present and
\* is not the HMAC-SHA256 of the payload
Mismatch(item) == item.sig \notin {"", "good"}

\* nothing of the item was dispatched or remembered
Discarded ==
    /\ processed' = processed
    /\ tasks' = tasks
    /\ dispatchLog' = dispatchLog

\* C29: when an app secret is configured and a payload carries a signature
\* header that does not match the HMAC-SHA256 of its raw bytes, the payload
\* is discarded: no message of it is dispatched and no id of it enters the
\* dedup cache.
C29_MismatchDiscarded ==
    [][(WorkerStep /\ appSecret /\ Mismatch(Head(queue))) => Discarded]_vars

(***************************************************************************)
(* The ingestion path fed with status callbacks and messages of the        *)
(* ignored types: a status callback, a change holding one message of each  *)
(* ignored type, and a status callback followed by a reaction and a text   *)
(* message.                                                                *)
(***************************************************************************)
IgnorablePayloads ==
    { Payload("", TRUE, << Change(TRUE, << >>) >>),
      Payload("", TRUE, << Change(FALSE, << Msg("m1", "reaction", "u1"),
                                            Msg("m2", "system", "u1"),
                                            Msg("m1", "ephemeral", "u1"),
                                            Msg("m2", "unsupported", "u1"),
                                            Msg("", "request_welcome", "u1") >>) >>),
      Payload("", TRUE, << Change(TRUE, << >>),
                           Change(FALSE, << Msg("m1", "reaction", "u1"),
                                            Msg("m2", "text", "u1") >>) >>) }

NextIgnorable ==
    \/ \E p \in IgnorablePayloads, f \in BOOLEAN : HandleWebhook(p, f)
    \/ EnqueuePut
    \/ EnqueueSuspend
    \/ EnqueueResume
    \/ \E w \in Workers : WorkerHandle(w)
    \/ Startup
    \/ BeginShutdown
    \/ Tick

SpecIgnorable == Init /\ [][NextIgnorable]_vars

\* the messages of an item that are neither part of a status callback nor of
\* one of the five types, as (change, message) positions
Candidates(item) ==
    {pos \in UNION {{<< k, i >> : i \in DOMAIN item.changes[k].messages} :
                       k \in DOMAIN item.changes} :
        /\ ~item.changes[pos[1]].statuses
        /\ item.changes[pos[1]].messages[pos[2]].type \notin
              {"reaction", "system", "ephemeral", "unsupported", "request_welcome"}}

CandidateIds(item) == {item.changes[pos[1]].messages[pos[2]].id : pos \in Candidates(item)}

\* C30: status callbacks and messages of type reaction, system, ephemeral,
\* unsupported or request_welcome never cause a processing task and never
\* add an entry to the dedup cache: handling an item creates at most one task
\* per other message, and only ids of other messages enter the cache.
C30_IgnoredTypesSkipped ==
    [][WorkerStep =>
          /\ BagSize(tasks', TaskRecs) - BagSize(tasks, TaskRecs)
                <= Cardinality(Candidates(Head(queue)))
          /\ \A i \in RealIds :
                (processed'[i] # NoTime /\ processed'[i] # processed[i])
                    => i \in CandidateIds(Head(queue))]_vars

\* two payloads of status callbacks and ignored messages were handled and
\* left neither a task nor a cache entry
C30_Witness ==
    /\ totalReceived >= 2
    /\ queue = << >> /\ enqReady = << >> /\ enqBlocked = << >>
    /\ workersAlive # {}
    /\ BagSize(tasks, TaskRecs) = 0
    /\ \A i \in RealIds : processed[i] = NoTime /\ delivered[i] = 0

(***************************************************************************)
(* main.py : _is_duplicate on its own.  The function is called with any id *)
(* (the empty one included) at any time; the clock is the one of Tick.     *)
(***************************************************************************)
DedupCheck(id) ==
    /\ LET r == IsDuplicate(processed, id, now)
       IN /\ processed' = r.cache
          /\ lastCheck' =
                [id |-> id, at |-> now, dup |-> r.dup,
                 cleaned |-> \E i \in RealIds : processed[i] # NoTime /\ r.cache[i] = NoTime]
    /\ UNCHANGED << queueCreated, shuttingDown, workersAlive, queue, enqReady,
                    enqBlocked, now, tasks, sem, totalReceived, totalProcessed,
                    totalErrors, requests, lastResponse, dispatchLog, delivered,
                    appSecret, varsLife, varsDebounce, varsRate, varsHandler,
                    varsWorker, pm, wf, fc, cs,
                    bp >>

NextDedup ==
    \/ \E id \in MsgIds : DedupCheck(id)
    \/ Tick

SpecDedup == InitDebounce /\ [][NextDedup]_vars

Older(cache, i, t) == cache[i] # NoTime /\ t - cache[i] > _DEDUP_TTL

\* an entry leaves the map (and is perhaps recorded anew by the same call)
\* only when the map is above the ceiling and the entry is older than the TTL
EvictsOnlyOld ==
    \A i \in RealIds :
        (processed[i] # NoTime /\ processed'[i] # processed[i]) =>
            /\ processed'[i] \in {NoTime, now}
            /\ Cardinality(CacheIds(processed)) > DedupCeiling
            /\ Older(processed, i, now)

\* the map is small or holds nothing older than the TTL
SmallOrFresh ==
    \/ Cardinality(CacheIds(processed)) <= DedupCeiling + 1
    \/ \A i \in RealIds : ~Older(processed, i, now)

\* the last call of _is_duplicate has just returned
JustChecked == lastCheck.at = now

\* C31 (as claimed): eviction runs only above the size ceiling and removes
\* only entries older than the TTL, and after every dedup check the map has
\* at most ceiling+1 entries or holds no entry older than the TTL.
C31_LazyEviction ==
    /\ [][EvictsOnlyOld]_vars
    /\ [](JustChecked => SmallOrFresh)

\* C31 (amended): the same, the bound on the map holding after every dedup
\* check of a non-empty id; a check of an empty id returns before the cleanup.
C31_LazyEvictionOfIds ==
    /\ [][EvictsOnlyOld]_vars
    /\ []((JustChecked /\ lastCheck.id # "") => SmallOrFresh)

\* a check above the ceiling evicted an old entry and kept a young one
C31_Witness ==
    /\ JustChecked
    /\ lastCheck.cleaned
    /\ \E i \in RealIds : i # lastCheck.id /\ processed[i] # NoTime /\ processed[i] < now

\* the changes of an item a worker gets to: the item passes the signature
\* check and parses, the change is well-formed, is no status callback and
\* stands before the first malformed entry
ChangesHandled(item) ==
    IF HmacVerdict(appSecret, item.sig) = "discard" \/ ~item.valid THEN {}
    ELSE {k \in DOMAIN item.changes :
             /\ k < GivenUpAt(item)
             /\ item.changes[k].kind = "change"
             /\ ~item.changes[k].statuses}

\* the messages without id among them that are not of an ignored type,
\* with or without a sender
WithoutId(item, hasSender) ==
    {pos \in UNION {{<< k, i >> : i \in DOMAIN item.changes[k].messages} :
                       k \in ChangesHandled(item)} :
        LET m == item.changes[pos[1]].messages[pos[2]]
        IN /\ m.id = ""
           /\ m.type # "malformed"
           /\ m.type \notin IgnoredTypes
           /\ (m.from # "") = hasSender}

\* C32: a message with an empty or missing id is never treated as a
\* duplicate and leaves the dedup cache unchanged: every delivery of such a
\* message (of a non-ignorable type) creates a processing task.
C32_EmptyIdAlwaysDispatched ==
    /\ [](LET r == IsDuplicate(processed, "", now)
          IN ~r.dup /\ r.cache = processed)
    /\ [][WorkerStep =>
             \A f \in BOOLEAN :
                 tasks'[Task(FALSE, f, "wait")] =
                     tasks[Task(FALSE, f, "wait")] + Cardinality(WithoutId(Head(queue), f))]_vars

\* the same message without id was delivered twice and dispatched twice
C32_Witness ==
    /\ tasks[Task(FALSE, FALSE, "wait")] >= 2
    /\ queue = << >>

(***************************************************************************)
(* main.py : _queue_worker, with every part of an iteration a step of its  *)
(* own and the cancellation of lifespan's shutdown as a request that the   *)
(* loop meets at an await.  Task.cancel() only marks the task; the         *)
(* CancelledError is raised where the coroutine waits.  The loop waits in  *)
(* "await _queue.get()" (l.233) and in "await asyncio.sleep(0.1)" (l.327) *)
(* and nowhere between the two: the handling of an item (l.235-321) holds  *)
(* no await.  A get() that is cancelled leaves the item in the queue.      *)
(*   get -> handle (pos 0: signature and JSON; pos k: change k) -> get     *)
(*                                                     \-> sleep -> get    *)
(***************************************************************************)
\* a loop that can be cancelled at any point
CancelPoint_Anywhere(pc) == pc # "exited"

\* the awaits of the loop
CancelPoint(pc) == pc \in {"get", "sleep"}

UnchangedByWorker ==
    UNCHANGED << queueCreated, enqReady, enqBlocked, now, sem, totalReceived,
                 totalProcessed, totalErrors, requests, lastResponse, appSecret,
                 forced, health, lastCheck, pm, wf, fc, cs, bp, varsDebounce,
                 varsRate, varsHandler >>

\* "item = await _queue.get()" returns
WorkerGet(w) ==
    /\ w \in workersAlive
    /\ wk[w].pc = "get"
    /\ ~wk[w].cancel
    /\ queue # << >>
    /\ wk' = [wk EXCEPT ![w] = [@ EXCEPT !.pc = "handle", !.item = Head(queue),
                                         !.pos = 0, !.raised = FALSE]]
    /\ queue' = Tail(queue)
    /\ served' = [served EXCEPT !.got = @ + 1]
    /\ UnchangedByWorker
    /\ UNCHANGED << shuttingDown, workersAlive, processed, tasks, dispatchLog,
                    delivered, shutdown >>

\* the signature check and json.loads: an item that fails either is dropped
WorkerVerify(w) ==
    /\ wk[w].pc = "handle"
    /\ wk[w].pos = 0
    /\ LET item == wk[w].item
           drop == HmacVerdict(appSecret, item.sig) = "discard" \/ ~item.valid
       IN wk' = [wk EXCEPT ![w].pos = IF drop THEN Len(item.changes) + 1 ELSE 1]
    /\ UnchangedByWorker
    /\ UNCHANGED << shuttingDown, workersAlive, queue, processed, tasks,
                    dispatchLog, delivered, shutdown, served >>

\* one change of the item: its messages are filtered, deduplicated and
\* dispatched
WorkerChange(w) ==
    /\ wk[w].pc = "handle"
    /\ ~wk[w].raised
    /\ wk[w].pos \in 1..Len(wk[w].item.changes)
    /\ LET S0 == [cache |-> processed, delivered |-> delivered,
                  spawned |-> << >>, log |-> dispatchLog, raised |-> FALSE]
           S == HandleChanges(<< wk[w].item.changes[wk[w].pos] >>, S0, now)
       IN /\ processed' = S.cache
          /\ delivered' = S.delivered
          /\ dispatchLog' = S.log
          /\ tasks' = AddTasks(tasks, S.spawned)
          /\ wk' = [wk EXCEPT ![w].pos = @ + 1, ![w].raised = S.raised]
    /\ UnchangedByWorker
    /\ UNCHANGED << shuttingDown, workersAlive, queue, shutdown, served >>

\* "finally: _queue.task_done()", then the next iteration, or the pause of
\* "except Exception" when the handling raised
WorkerTaskDone(w) ==
    /\ wk[w].pc = "handle"
    /\ wk[w].raised \/ wk[w].pos > Len(wk[w].item.changes)
    /\ served' = [served EXCEPT !.done = @ + 1]
    /\ wk' = [wk EXCEPT ![w] = [@ EXCEPT !.pc = IF wk[w].raised THEN "sleep" ELSE "get",
                                         !.item = NoItem, !.pos = 0, !.raised = FALSE]]
    /\ UnchangedByWorker
    /\ UNCHANGED << shuttingDown, workersAlive, queue, processed, tasks,
                    dispatchLog, delivered, shutdown >>

\* "await asyncio.sleep(0.1)" returns
WorkerWake(w) ==
    /\ wk[w].pc = "sleep"
    /\ ~wk[w].cancel
    /\ wk' = [wk EXCEPT ![w].pc = "get"]
    /\ UnchangedByWorker
    /\ UNCHANGED << shuttingDown, workersAlive, queue, processed, tasks,
                    dispatchLog, delivered, shutdown, served >>

\* lifespan: "_shutting_down = True" and "for t in _worker_tasks: t.cancel()"
RequestCancel ==
    /\ queueCreated
    /\ ~shuttingDown
    /\ shuttingDown' = TRUE
    /\ shutdown' = "grace"
    /\ wk' = [w \in Workers |->
                 IF w \in workersAlive
                 THEN [wk[w] EXCEPT !.cancel = TRUE, !.busyAtCancel = wk[w].pc = "handle"]
                 ELSE wk[w]]
    /\ UnchangedByWorker
    /\ UNCHANGED << workersAlive, queue, processed, tasks, dispatchLog, delivered,
                    served >>

\* the CancelledError reaches the loop: "except asyncio.CancelledError: break"
WorkerCancelled(w) ==
    /\ wk[w].cancel
    /\ CancelPoint(wk[w].pc)
    /\ wk' = [wk EXCEPT ![w].pc = "exited"]
    /\ workersAlive' = workersAlive \ {w}
    /\ UnchangedByWorker
    /\ UNCHANGED << shuttingDown, queue, processed, tasks, dispatchLog, delivered,
                    shutdown, served >>

\* the code between the two awaits of the loop runs without a pause
WorkerRuns(w) == WorkerVerify(w) \/ WorkerChange(w) \/ WorkerTaskDone(w)

\* an item of two changes, and one whose handling raises half-way
WorkerPayloads ==
    { Payload("good", TRUE, << Change(FALSE, << Msg("", "text", "") >>),
                               Change(FALSE, << Msg("m1", "text", "u1") >>) >>),
      Payload("", TRUE, << Change(FALSE, << Msg("m2", "text", "u1") >>),
                           BadEntry,
                           Change(FALSE, << Msg("m1", "text", "u1") >>) >>) }

NextWorker ==
    \/ \E p \in WorkerPayloads : HandleWebhook(p, FALSE)
    \/ EnqueuePut
    \/ EnqueueSuspend
    \/ EnqueueResume
    \/ Startup
    \/ \E w \in Workers : WorkerGet(w)
    \/ \E w \in Workers : WorkerVerify(w)
    \/ \E w \in Workers : WorkerChange(w)
    \/ \E w \in Workers : WorkerTaskDone(w)
    \/ \E w \in Workers : WorkerWake(w)
    \/ RequestCancel
    \/ \E w \in Workers : WorkerCancelled(w)

SpecWorker ==
    /\ InitDebounce
    /\ [][NextWorker]_vars
    /\ \A w \in Workers : WF_vars(WorkerRuns(w))

Handling == {w \in Workers : wk[w].pc = "handle"}

\* a worker leaves the handling of an item only at its end (or where the
\* item raised)
LeavesAtEnd ==
    \A w \in Workers :
        (wk[w].pc = "handle" /\ wk'[w].pc # "handle") =>
            /\ wk[w].raised \/ wk[w].pos > Len(wk[w].item.changes)
            /\ served'.done = served.done + 1

C34_NoEnqueueAfterFlag ==
    [][shuttingDown => Len(queue') <= Len(queue)]_vars

(***************************************************************************)
(* main.py : _process_message, one record per task, every await a step.    *)
(*   idle -> wait -> (typing ->) work -> done                              *)
(*                                  \-> notice -> done                     *)
(* and "cancelled" from any await once the shutdown cancels the tasks.     *)
(***************************************************************************)
PmTasks == 1..MaxTasks

\* a task that counts a timeout as a processed message as well
Counted_TimeoutAlsoProcessed(outcome) ==
    [ok |-> IF outcome \in {"ok", "timeout"} THEN 1 ELSE 0,
     err |-> IF outcome \in {"timeout", "error"} THEN 1 ELSE 0]

\* "_total_processed += 1" after wait_for returns, "_total_errors += 1" in
\* "except asyncio.TimeoutError" and in "except Exception"
Counted(outcome) ==
    [ok |-> IF outcome = "ok" THEN 1 ELSE 0,
     err |-> IF outcome \in {"timeout", "error"} THEN 1 ELSE 0]

UnchangedByProcess ==
    UNCHANGED << queueCreated, shuttingDown, workersAlive, queue, enqReady,
                 enqBlocked, processed, now, tasks, totalReceived, requests,
                 lastResponse, dispatchLog, delivered, appSecret, forced, health,
                 lastCheck, varsWorker, wf, fc, cs, bp, varsDebounce, varsRate,
                 varsHandler >>

\* asyncio.create_task(_process_message(body, msg_id, sender))
PmCreate(k, hasId, hasSender) ==
    /\ queueCreated
    /\ shutdown = "no"
    /\ pm[k].pc = "idle"
    /\ \A j \in 1..(k - 1) : pm[j].pc # "idle"
    /\ pm' = [pm EXCEPT ![k] = [NoTask EXCEPT !.pc = "wait", !.hasId = hasId,
                                             !.hasSender = hasSender]]
    /\ UNCHANGED << sem, totalProcessed, totalErrors, shutdown >>
    /\ UnchangedByProcess

\* "async with _concurrency_sem" entered
PmAcquire(k) ==
    /\ pm[k].pc = "wait"
    /\ CanAcquire(sem)
    /\ sem' = sem - 1
    /\ pm' = [pm EXCEPT ![k].holds = TRUE,
                        ![k].pc = IF pm[k].hasId THEN "typing" ELSE "work"]
    /\ UNCHANGED << totalProcessed, totalErrors, shutdown >>
    /\ UnchangedByProcess

\* send_typing_indicator returns or raises ("except Exception: pass")
PmTypingDone(k) ==
    /\ pm[k].pc = "typing"
    /\ pm' = [pm EXCEPT ![k].pc = "work"]
    /\ UNCHANGED << sem, totalProcessed, totalErrors, shutdown >>
    /\ UnchangedByProcess

\* "await asyncio.wait_for(_workflow.ainvoke(...), timeout=_MESSAGE_TIMEOUT)"
\* ends: the workflow returns ("ok"), wait_for cancels it at the timeout and
\* raises TimeoutError ("timeout"), or the workflow raises ("error").  After
\* a failure the notice is sent when the message has a sender ("if sender").
PmWorkflowEnds(k, outcome) ==
    /\ pm[k].pc = "work"
    /\ LET c == Counted(outcome)
           toNotice == outcome # "ok" /\ pm[k].hasSender
       IN /\ totalProcessed' = totalProcessed + c.ok
          /\ totalErrors' = totalErrors + c.err
          /\ pm' = [pm EXCEPT ![k].ok = @ + c.ok,
                              ![k].err = @ + c.err,
                              ![k].timedOut = outcome = "timeout",
                              ![k].wfCancelled = outcome = "timeout",
                              ![k].pc = IF toNotice THEN "notice" ELSE "done",
                              ![k].holds = toNotice]
          /\ sem' = IF toNotice THEN sem ELSE Release(sem)
    /\ UNCHANGED shutdown
    /\ UnchangedByProcess

\* send_text of the notice returns or raises ("with suppress(Exception)"),
\* and the task leaves the "async with" block
PmNoticeDone(k, fails) ==
    /\ pm[k].pc = "notice"
    /\ pm' = [pm EXCEPT ![k].notice = IF fails THEN "failed" ELSE "sent",
                        ![k].pc = "done",
                        ![k].holds = FALSE]
    /\ sem' = Release(sem)
    /\ UNCHANGED << totalProcessed, totalErrors, shutdown >>
    /\ UnchangedByProcess

\* lifespan: the grace period is over, "for task in pending: task.cancel()"
PmForceCancel ==
    /\ queueCreated
    /\ shutdown = "no"
    /\ \E k \in PmTasks : pm[k].pc \notin {"idle", "done"}
    /\ shutdown' = "cancelling"
    /\ UNCHANGED << pm, sem, totalProcessed, totalErrors >>
    /\ UnchangedByProcess

\* CancelledError at the await the task stands at ("except
\* asyncio.CancelledError: raise"; neither "except Exception" nor
\* suppress(Exception) holds it back)
PmCancelled(k) ==
    /\ shutdown = "cancelling"
    /\ pm[k].pc \in {"wait", "typing", "work", "notice"}
    /\ pm' = [pm EXCEPT ![k].pc = "cancelled", ![k].holds = FALSE]
    /\ sem' = IF pm[k].holds THEN Release(sem) ELSE sem
    /\ UNCHANGED << totalProcessed, totalErrors, shutdown >>
    /\ UnchangedByProcess

NextProcess ==
    \/ Startup
    \/ \E k \in PmTasks, i, s \in BOOLEAN : PmCreate(k, i, s)
    \/ \E k \in PmTasks : PmAcquire(k)
    \/ \E k \in PmTasks : PmTypingDone(k)
    \/ \E k \in PmTasks, o \in {"ok", "timeout", "error"} : PmWorkflowEnds(k, o)
    \/ \E k \in PmTasks, f \in BOOLEAN : PmNoticeDone(k, f)
    \/ PmForceCancel
    \/ \E k \in PmTasks : PmCancelled(k)

SpecProcess == InitDebounce /\ [][NextProcess]_vars

RECURSIVE PmSum(_, _)
PmSum(field, n) == IF n = 0 THEN 0 ELSE pm[n][field] + PmSum(field, n - 1)

\* a timed-out run is cancelled and counted as one error, never as processed
TimeoutIsOneError ==
    \A k \in PmTasks :
        pm[k].timedOut => pm[k].wfCancelled /\ pm[k].err = 1 /\ pm[k].ok = 0

\* a task that ended uncancelled counted once, in one counter, gave its
\* permit back, and after a timeout tried the notice to its sender
EndedCountedOnce ==
    \A k \in PmTasks :
        pm[k].pc = "done" =>
            /\ pm[k].ok + pm[k].err = 1
            /\ ~pm[k].holds
            /\ (pm[k].timedOut /\ pm[k].hasSender) => pm[k].notice # "none"

\* the permit of a timed-out task with a sender is given back after the
\* notice, not before
NoticeBeforeRelease ==
    \A k \in PmTasks :
        (pm[k].holds /\ ~pm'[k].holds /\ pm'[k].timedOut /\ pm'[k].hasSender
            /\ pm'[k].pc = "done") => pm[k].pc = "notice"

\* C35: a workflow run that exceeds the per-message timeout is cancelled, is
\* counted as exactly one error and never as processed, the timeout notice
\* to the sender is attempted (its failure ignored) and the task then gives
\* its permit back; a task that ends without being cancelled increments
\* exactly one of the two counters exactly once.
C35_TimeoutCountedOnce ==
    /\ [](TimeoutIsOneError /\ EndedCountedOnce)
    /\ [](totalProcessed = PmSum("ok", MaxTasks) /\ totalErrors = PmSum("err", MaxTasks))
    /\ [](queueCreated =>
             sem = MaxConcurrent - Cardinality({k \in PmTasks : pm[k].holds}))
    /\ [][NoticeBeforeRelease]_vars

\* a run timed out, its notice failed, and the task ended with its permit
\* given back, next to a task that succeeded
C35_Witness ==
    \E k, j \in PmTasks :
        /\ pm[k].pc = "done" /\ pm[k].timedOut /\ pm[k].notice = "failed"
        /\ pm[j].pc = "done" /\ pm[j].ok = 1
        /\ totalErrors = 1
        /\ sem = MaxConcurrent

(***************************************************************************)
(* graph.py : build_graph.  One run of the workflow, node by node: wf.node *)
(* is the node to run next, wf.trace the nodes run so far.  What the nodes *)
(* compute from the message (is it a group message, an initial message, a  *)
(* greeting; what save_message_count returns) is drawn when the run        *)
(* starts; check_rate_limit and the routing functions are translated.      *)
(***************************************************************************)
FilterNodes == {"check_is_on_group", "check_initial_message", "check_greeting"}
ProcessingNodes == {"process_audio", "process_text", "process_image", "process_video"}
AnswerNodes ==
    {"send_welcome_message", "handle_greeting", "handle_document_unsupported",
     "send_rationale_text", "send_audio_response"}
MessageTypes == {"audio", "text", "image", "sticker", "video", "document", "location"}

\* what save_message_count returns: nothing counted without a phone; the
\* reset result for "/reset" (or, when the store raises, a count of the
\* fallback); otherwise a count, with is_new_user only next to a count of 1
SaveResults(hasPhone, isResetText) ==
    IF ~hasPhone THEN {[count |-> 0, isNew |-> FALSE, isReset |-> FALSE]}
    ELSE IF isResetText
    THEN {[count |-> 0, isNew |-> FALSE, isReset |-> TRUE]}
         \cup {[count |-> c, isNew |-> FALSE, isReset |-> FALSE] : c \in 1..(MaxLimit + 1)}
    ELSE {[count |-> c, isNew |-> n, isReset |-> FALSE] :
             c \in 1..(MaxLimit + 1), n \in BOOLEAN} \
         {[count |-> c, isNew |-> TRUE, isReset |-> FALSE] : c \in 2..(MaxLimit + 1)}

WfInputs ==
    UNION {[hasPhone : {hp}, saved : SaveResults(hp, rt), limit : 1..MaxLimit,
            isGroup : BOOLEAN, isInitial : BOOLEAN, isGreeting : BOOLEAN,
            type : MessageTypes, rationale : BOOLEAN] :
              hp \in BOOLEAN, rt \in BOOLEAN}

\* a routing that sends an ordinary message straight to the filters
RouteAfterSaveCount_PastCheck(st) ==
    IF st.isReset THEN "handle_reset_command"
    ELSE IF st.isNew THEN "send_welcome_message"
    ELSE "check_is_on_group"

\* _route_after_save_count
RouteAfterSaveCount(st) ==
    IF st.isReset THEN "handle_reset_command"
    ELSE IF st.isNew THEN "send_welcome_message"
    ELSE "check_rate_limit"

\* route_direct_message
RouteDirectMessage(type) ==
    CASE type = "audio" -> "process_audio"
      [] type = "text" -> "process_text"
      [] type \in {"image", "sticker"} -> "process_image"
      [] type = "video" -> "process_video"
      [] OTHER -> "handle_document_unsupported"

\* check_rate_limit: "if not phone" lets the message pass, "daily_count >=
\* limit" blocks it
CheckRateLimit(in, st) == in.hasPhone /\ st.count >= in.limit

\* the edges of build_graph
NextNode(node, in, st) ==
    CASE node = "extract_data" -> "save_message_count"
      [] node = "save_message_count" -> RouteAfterSaveCount(st)
      [] node = "send_welcome_message" -> "check_rate_limit"
      [] node = "handle_reset_command" -> "__end__"
      [] node = "check_rate_limit" ->
            IF st.limited THEN "__end__" ELSE "check_is_on_group"
      [] node = "check_is_on_group" ->
            IF in.isGroup THEN "__end__" ELSE "check_initial_message"
      [] node = "check_initial_message" ->
            IF in.isInitial THEN "mark_as_read_initial" ELSE "check_greeting"
      [] node = "mark_as_read_initial" -> "__end__"
      [] node = "check_greeting" ->
            IF in.isGreeting THEN "handle_greeting" ELSE "mark_as_read_direct"
      [] node = "handle_greeting" -> "__end__"
      [] node = "mark_as_read_direct" -> RouteDirectMessage(in.type)
      [] node \in ProcessingNodes -> "send_rationale_text"
      [] node = "handle_document_unsupported" -> "__end__"
      [] node = "send_rationale_text" ->
            IF in.type = "audio" /\ in.rationale THEN "send_audio_response"
            ELSE "__end__"
      [] node = "send_audio_response" -> "__end__"

UnchangedByWorkflow ==
    UNCHANGED << varsIngest, varsDebounce, varsRate, varsHandler, lastCheck,
                 varsWorker, pm, fc, cs, bp >>

\* _workflow.ainvoke(initial_state)
WfStart(in) ==
    /\ wf.node \in {"idle", "__end__"}
    /\ wf.runs < MaxRuns
    /\ wf' = [node |-> "extract_data", trace |-> << >>, in |-> in,
              state |-> [count |-> 0, isNew |-> FALSE, isReset |-> FALSE,
                         limited |-> FALSE],
              runs |-> wf.runs + 1]
    /\ UnchangedByWorkflow

\* the node wf.node runs and the graph moves on along its edge
WfNode ==
    /\ wf.node \notin {"idle", "__end__"}
    /\ LET st == CASE wf.node = "save_message_count" ->
                        [wf.state EXCEPT !.count = wf.in.saved.count,
                                         !.isNew = wf.in.saved.isNew,
                                         !.isReset = wf.in.saved.isReset]
                   [] wf.node = "check_rate_limit" ->
                        [wf.state EXCEPT !.limited = CheckRateLimit(wf.in, wf.state)]
                   [] OTHER -> wf.state
       IN wf' = [wf EXCEPT !.trace = Append(wf.trace, wf.node),
                           !.state = st,
                           !.node = NextNode(wf.node, wf.in, st)]
    /\ UnchangedByWorkflow

NextWorkflow == (\E in \in WfInputs : WfStart(in)) \/ WfNode

SpecWorkflow == InitDebounce /\ [][NextWorkflow]_vars

Ran(n) == \E i \in DOMAIN wf.trace : wf.trace[i] = n

\* node a ran, and ran before position i of the trace
RanBefore(a, i) == \E j \in 1..(i - 1) : wf.trace[j] = a

\* the count and the limit check precede every node of the set S
CountedAndCheckedBefore(S) ==
    \A i \in DOMAIN wf.trace :
        wf.trace[i] \in S =>
            RanBefore("save_message_count", i) /\ RanBefore("check_rate_limit", i)

\* a run that the check blocked ended there
EndsWhenBlocked ==
    (wf.node # "idle" /\ wf.state.limited) =>
        /\ wf.node = "__end__"
        /\ wf.trace[Len(wf.trace)] = "check_rate_limit"

\* only a run of a /reset command ends without the limit check
OnlyResetSkips ==
    (wf.node = "__end__" /\ ~Ran("check_rate_limit")) =>
        wf.state.isReset /\ Ran("handle_reset_command")

Statuses == {200, 302, 400, 404, 429, 500, 503}
ConnectionErrors ==
    {"ConnectError", "ReadTimeout", "WriteTimeout", "PoolTimeout", "ConnectTimeout"}
OtherErrors == {"ReadError", "RemoteProtocolError"}
Response(status) == [status |-> status, exc |-> "none"]
Raised(exc) == [status |-> 0, exc |-> exc]
AttemptOutcomes ==
    {Response(s) : s \in Statuses} \cup {Raised(e) : e \in ConnectionErrors \cup OtherErrors}

\* a client that tries again after any HTTP error status
AfterAttempt_RetryAnyStatus(outcome, attempt) ==
    IF outcome.status = 200 THEN "return"
    ELSE IF outcome.exc \in {"none"} \cup ConnectionErrors /\ attempt < _MAX_RETRIES - 1
    THEN "retry"
    ELSE "raise"

\* what the loop does with an attempt's outcome
AfterAttempt(outcome, attempt) ==
    IF outcome.status = 200 THEN "return"
    ELSE IF outcome.exc = "none"
    THEN IF outcome.status >= 500 /\ attempt < _MAX_RETRIES - 1 THEN "retry" ELSE "raise"
    ELSE IF outcome.exc \in ConnectionErrors
    THEN IF attempt < _MAX_RETRIES - 1 THEN "retry" ELSE "raise"
    ELSE "raise"

UnchangedByPost ==
    UNCHANGED << varsIngest, varsDebounce, varsRate, varsHandler, lastCheck,
                 varsWorker, pm, wf, cs, bp >>

\* check_text / check_content call _post_with_retry
PostStart ==
    /\ fc.pc = "idle"
    /\ fc' = [fc EXCEPT !.pc = "posting"]
    /\ UnchangedByPost

\* "await client.post(...)" of the current attempt ends
PostAttemptEnds(outcome) ==
    /\ fc.pc = "posting"
    /\ fc.attempt < _MAX_RETRIES
    /\ LET todo == AfterAttempt(outcome, fc.attempt)
       IN fc' = [fc EXCEPT !.met = Append(@, outcome),
                           !.pc = CASE todo = "return" -> "returned"
                                    [] todo = "raise" -> "raised"
                                    [] todo = "retry" -> "sleeping",
                           !.slept = IF todo = "retry"
                                     THEN Append(@, _RETRY_DELAYS[fc.attempt + 1])
                                     ELSE @,
                           !.result = IF todo = "retry" THEN NoOutcome ELSE outcome]
    /\ UnchangedByPost

\* "await asyncio.sleep(delay)" returns and the loop goes round
PostWake ==
    /\ fc.pc = "sleeping"
    /\ fc' = [fc EXCEPT !.pc = "posting", !.attempt = @ + 1]
    /\ UnchangedByPost

NextPost == PostStart \/ (\E o \in AttemptOutcomes : PostAttemptEnds(o)) \/ PostWake

SpecPost == InitDebounce /\ [][NextPost]_vars

Retryable(o) == o.status >= 500 \/ o.exc \in ConnectionErrors

\* C37: a fact-check request is attempted at most 3 times; it is retried
\* (after 2 s, then 4 s) only after a 5xx response or a connection/timeout
\* error; a 4xx response fails at once; the first successful response is
\* returned; after the third failed attempt the last error is raised.
C37_BoundedRetry ==
    /\ Len(fc.met) <= 3
    /\ Len(fc.slept) <= 2
    /\ \A i \in DOMAIN fc.slept : fc.slept[i] = 2 * i /\ Retryable(fc.met[i])
    /\ Len(fc.slept) = IF fc.pc \in {"returned", "raised"} THEN Len(fc.met) - 1
                       ELSE Len(fc.met)
    /\ \A i \in DOMAIN fc.met :
          /\ (fc.met[i].status \in 400..499) => (fc.pc = "raised" /\ i = Len(fc.met))
          /\ (fc.met[i].status = 200) => (fc.pc = "returned" /\ i = Len(fc.met))
    /\ (fc.pc = "returned") =>
          (fc.result = Response(200) /\ fc.met[Len(fc.met)] = Response(200))
    /\ (fc.pc = "raised") =>
          (fc.result.status # 200 /\ fc.result = fc.met[Len(fc.met)])
    /\ (Len(fc.met) = 3) => fc.pc \in {"returned", "raised"}

\* two failed attempts were retried after 2 s and 4 s and the third failed
\* too: its error was raised
C37_Witness ==
    /\ fc.pc = "raised"
    /\ fc.met = << Response(503), Raised("ReadTimeout"), Response(500) >>
    /\ fc.slept = << 2, 4 >>
    /\ fc.result = Response(500)

(***************************************************************************)
(* nodes/message_handler.py : the consent flow of one sender who is        *)
(* unknown at first.  The sender's messages are texts and, once a prompt   *)
(* with the two buttons has been sent, presses of the accept button.       *)
(* Every awaited Redis call is a step; mark_as_read and the sends are part *)
(* of the neighbouring step.  cs.sent lists the prompts sent, cs.wrote the *)
(* tasks in the order in which they wrote their lock token, and            *)
(* cs.nextWrote[h] tells whether task h + 1 had written its token when     *)
(* task h woke.                                                            *)
(*   text:   entered -> (register -> set_terms | check_terms) -> save ->   *)
(*           lock -> sleep -> (done | clear -> prompt -> done)             *)
(*           (check_terms -> debounce when the terms are accepted)         *)
(*   accept: entered -> drain -> done                                      *)
(***************************************************************************)
ConsentKinds == {"text", "accept"}

CAt(h, pc) == cs.hs[h].pc = pc

UnchangedByConsent ==
    UNCHANGED << varsIngest, varsDebounce, varsRate, varsHandler, lastCheck,
                 varsWorker, pm, wf, fc, bp >>

\* handle_incoming_message starts for the sender's next message
CEnter(h, kind) ==
    /\ h = cs.started + 1
    /\ h <= MaxConsentTasks
    /\ kind = "accept" => (cs.sent # << >> \/ ~cs.wasUnknown)
    /\ cs' = [cs EXCEPT !.started = h,
                        !.hs[h] = [kind |-> kind, branch |-> "none", pc |-> "entered"]]
    /\ UnchangedByConsent

\* "is_registered = await redis_client.is_user_registered(sender)"
CCheckRegistered(h) ==
    /\ CAt(h, "entered") /\ cs.hs[h].kind = "text"
    /\ cs' = [cs EXCEPT !.hs[h] =
                 IF cs.registered THEN [@ EXCEPT !.pc = "check_terms"]
                 ELSE [@ EXCEPT !.branch = "new", !.pc = "register"]]
    /\ UnchangedByConsent

\* "terms_status = await redis_client.get_terms_status(sender)"
CGetTerms(h) ==
    /\ CAt(h, "check_terms")
    /\ cs' = [cs EXCEPT !.hs[h] =
                 IF cs.terms = "yes" THEN [@ EXCEPT !.branch = "debounce", !.pc = "debounce"]
                 ELSE [@ EXCEPT !.branch = "terms", !.pc = "save"]]
    /\ UnchangedByConsent

\* _handle_new_user : register_user
CRegister(h) ==
    /\ CAt(h, "register")
    /\ cs' = [cs EXCEPT !.registered = TRUE, !.hs[h].pc = "set_terms"]
    /\ UnchangedByConsent

\* _handle_new_user : set_terms_status(sender, False)
CSetTermsPending(h) ==
    /\ CAt(h, "set_terms")
    /\ cs' = [cs EXCEPT !.terms = "no", !.hs[h].pc = "save"]
    /\ UnchangedByConsent

\* _save_pending_message
CSavePending(h) ==
    /\ CAt(h, "save")
    /\ cs' = [cs EXCEPT !.pending = AddPendingMessage(@, h), !.hs[h].pc = "lock"]
    /\ UnchangedByConsent

\* set_debounce_lock with a fresh token, then the sleep begins
CSetLock(h) ==
    /\ CAt(h, "lock")
    /\ cs' = [cs EXCEPT !.lock = h, !.wrote = Append(@, h), !.hs[h].pc = "sleep"]
    /\ UnchangedByConsent

\* get_debounce_lock after the sleep and "if current_lock != lock_id: return"
CGetLock(h) ==
    /\ CAt(h, "sleep")
    /\ cs' = [cs EXCEPT !.nextWrote[h] = \E i \in DOMAIN cs.wrote : cs.wrote[i] = h + 1,
                        !.hs[h].pc = IF TokenMatches(cs.lock, h) THEN "clear" ELSE "done"]
    /\ UnchangedByConsent

\* clear_debounce_lock
CClearLock(h) ==
    /\ CAt(h, "clear")
    /\ cs' = [cs EXCEPT !.lock = NoLock, !.hs[h].pc = "prompt"]
    /\ UnchangedByConsent

\* send_interactive_buttons : WELCOME_MESSAGE in _handle_new_user,
\* TERMS_REQUIRED_MESSAGE in _handle_terms_not_accepted
CSendPrompt(h) ==
    /\ CAt(h, "prompt")
    /\ cs' = [cs EXCEPT !.sent = Append(@, [by |-> h,
                                           what |-> IF cs.hs[h].branch = "new"
                                                    THEN "welcome" ELSE "terms_required",
                                           terms |-> cs.terms]),
                        !.hs[h].pc = "done"]
    /\ UnchangedByConsent

\* _handle_terms_response, button terms_accept : set_terms_status(sender, True)
CAcceptTerms(h) ==
    /\ CAt(h, "entered") /\ cs.hs[h].kind = "accept"
    /\ cs' = [cs EXCEPT !.terms = "yes", !.hs[h] = [@ EXCEPT !.branch = "accept", !.pc = "drain"]]
    /\ UnchangedByConsent

\* _handle_terms_response : get_and_clear_pending_messages and the handling
\* of what it returned
CAcceptDrain(h) ==
    /\ CAt(h, "drain")
    /\ cs' = [cs EXCEPT !.pending = GetAndClearPendingMessages(@).rest,
                        !.hs[h].pc = "done"]
    /\ UnchangedByConsent

NextConsent ==
    \/ \E h \in 1..MaxConsentTasks, kind \in ConsentKinds : CEnter(h, kind)
    \/ \E h \in 1..MaxConsentTasks : CCheckRegistered(h)
    \/ \E h \in 1..MaxConsentTasks : CGetTerms(h)
    \/ \E h \in 1..MaxConsentTasks : CRegister(h)
    \/ \E h \in 1..MaxConsentTasks : CSetTermsPending(h)
    \/ \E h \in 1..MaxConsentTasks : CSavePending(h)
    \/ \E h \in 1..MaxConsentTasks : CSetLock(h)
    \/ \E h \in 1..MaxConsentTasks : CGetLock(h)
    \/ \E h \in 1..MaxConsentTasks : CClearLock(h)
    \/ \E h \in 1..MaxConsentTasks : CSendPrompt(h)
    \/ \E h \in 1..MaxConsentTasks : CAcceptTerms(h)
    \/ \E h \in 1..MaxConsentTasks : CAcceptDrain(h)

InitConsent ==
    /\ IdleParts
    /\ cs \in {NoConsentFlow, PromptedFlow}
    /\ InitIngestPart /\ appSecret = FALSE
    /\ IdleDebounce /\ IdleRate /\ IdleHandler

SpecConsent == InitConsent /\ [][NextConsent]_vars

\* the messages so far are one burst of texts that has settled: every task
\* has ended, the tokens were written in the order of the messages, and each
\* later token was written before the previous task woke
OneBurstSettled ==
    /\ cs.wasUnknown
    /\ cs.started >= 1
    /\ \A h \in 1..cs.started : cs.hs[h].kind = "text" /\ cs.hs[h].pc = "done"
    /\ cs.wrote = [i \in 1..cs.started |-> i]
    /\ \A h \in 1..(cs.started - 1) : cs.nextWrote[h]

Welcomes == {i \in DOMAIN cs.sent : cs.sent[i].what = "welcome"}

C39_NoPromptAfterAccept ==
    [][(cs.terms = "yes" /\ cs'.terms = "yes") => cs'.sent = cs.sent]_vars

(***************************************************************************)
(* nodes/message_handler.py : _process_with_classification for one batch   *)
(* that get_and_clear_pending_messages returned (the batch is no longer in *)
(* Redis).  A batch holds a media message ("media"), only messages with    *)
(* text ("text"), or neither, as a location or contact message ("blank").  *)
(* bp.arrived tells that a later message of the sender has been appended   *)
(* to the pending list since the drain; bp.outcomes lists what the sender  *)
(* was given for the batch, bp.past the same for the batches before it.    *)
(*   media: verify -> done                                                 *)
(*   text:  classify -> count -> (verify | generate -> recount -> send)    *)
(*          -> done                                                        *)
(***************************************************************************)
BatchKinds == {"media", "text", "blank"}
Classifications == {"VERIFICAR", "CONVERSAR"}

\* "if new_pending_count > 0": a batch to verify is verified, any other is
\* dropped ("abandonando resposta conversacional"); else by classification
AfterCount(cls, arrived) ==
    IF arrived
    THEN IF cls = "VERIFICAR" THEN "verify" ELSE "done"
    ELSE IF cls = "VERIFICAR" THEN "verify" ELSE "generate"

UnchangedByBatch ==
    UNCHANGED << varsIngest, varsDebounce, varsRate, varsHandler, lastCheck,
                 varsWorker, pm, wf, fc, cs >>

\* _process_with_classification(sender, pending) is called with a batch
BatchStart(kind) ==
    /\ bp.pc \in {"idle", "done"}
    /\ bp.batches < MaxBatches
    /\ bp' = [pc |-> CASE kind = "media" -> "verify"
                       [] kind = "text" -> "classify"
                       [] kind = "blank" -> "done",
              kind |-> kind, cls |-> "none", arrived |-> FALSE,
              outcomes |-> << >>, batches |-> bp.batches + 1,
              past |-> IF bp.pc = "done"
                       THEN Append(bp.past, [kind |-> bp.kind, outcomes |-> bp.outcomes])
                       ELSE bp.past]
    /\ UnchangedByBatch

\* a later message of the sender is saved to the pending list by its own
\* handler task
BatchNewMessage ==
    /\ bp.pc \notin {"idle", "done"}
    /\ ~bp.arrived
    /\ bp' = [bp EXCEPT !.arrived = TRUE]
    /\ UnchangedByBatch

\* "classification = await ai_services.classify_message(text_messages)"
\* returns or raises ("except Exception": ERROR_MESSAGE)
BatchClassified(cls, raises) ==
    /\ bp.pc = "classify"
    /\ bp' = IF raises
             THEN [bp EXCEPT !.pc = "done", !.outcomes = Append(@, "error")]
             ELSE [bp EXCEPT !.pc = "count", !.cls = cls]
    /\ UnchangedByBatch

\* "new_pending_count = await redis_client.get_pending_message_count(sender)"
BatchCount ==
    /\ bp.pc = "count"
    /\ bp' = [bp EXCEPT !.pc = AfterCount(bp.cls, bp.arrived)]
    /\ UnchangedByBatch

\* _run_verification : the workflow runs and answers, or raises and the
\* error notice is sent
BatchVerify(raises) ==
    /\ bp.pc = "verify"
    /\ bp' = [bp EXCEPT !.pc = "done",
                        !.outcomes = Append(@, IF raises THEN "error" ELSE "verification")]
    /\ UnchangedByBatch

\* _run_conversation : get_chat_history and generate_chat_response
BatchGenerate(raises) ==
    /\ bp.pc = "generate"
    /\ bp' = IF raises
             THEN [bp EXCEPT !.pc = "done", !.outcomes = Append(@, "error")]
             ELSE [bp EXCEPT !.pc = "recount"]
    /\ UnchangedByBatch

\* _run_conversation : get_pending_message_count after the generation; the
\* reply is dropped when a message has arrived
BatchRecount ==
    /\ bp.pc = "recount"
    /\ bp' = [bp EXCEPT !.pc = IF bp.arrived THEN "done" ELSE "send"]
    /\ UnchangedByBatch

\* _run_conversation : send_text(response), or ERROR_MESSAGE when it raises
BatchSend(raises) ==
    /\ bp.pc = "send"
    /\ bp' = [bp EXCEPT !.pc = "done",
                        !.outcomes = Append(@, IF raises THEN "error" ELSE "reply")]
    /\ UnchangedByBatch

NextBatch ==
    \/ \E k \in BatchKinds : BatchStart(k)
    \/ BatchNewMessage
    \/ \E c \in Classifications, r \in BOOLEAN : BatchClassified(c, r)
    \/ BatchCount
    \/ \E r \in BOOLEAN : BatchVerify(r)
    \/ \E r \in BOOLEAN : BatchGenerate(r)
    \/ BatchRecount
    \/ \E r \in BOOLEAN : BatchSend(r)

SpecBatch == InitDebounce /\ [][NextBatch]_vars

\* C40 (as claimed): every non-empty batch that was drained ends in exactly
\* one outcome the sender sees (a verification run, a conversational reply
\* or an error notice), also when messages of the sender arrive while the
\* batch is classified or answered.
C40_EveryBatchAnswered ==
    (bp.pc = "done" /\ bp.kind # "blank") => Len(bp.outcomes) = 1

====
